---- MODULE Spec2Model ----
(***************************************************************************)
(* HeisenXP-Bot: the XP ledger (db.js), the level curve (xp.js), the award *)
(* handlers (index.js), the voice ticker (voiceTicker.js), the decay pass  *)
(* (decay.js) and the level-role synchronisation (roles.js), as a state    *)
(* machine.                                                                *)
(*                                                                         *)
(* JavaScript numbers are modelled by records (see Fin, Frac, NaN, PosInf, *)
(* NegInf) so that clamping, flooring and the handling of non-finite values*)
(* are computed as the code computes them.  Arithmetic is exact: IEEE-754  *)
(* rounding is outside the model.                                          *)
(***************************************************************************)
EXTENDS Integers, Sequences, FiniteSets, TLC

VARIABLES
    now,        \* Date.now(), in milliseconds
    users,      \* table users: users[g][u] is the stored xp (a number) or NoRow
    levelRoles, \* table level_roles: levelRoles[g][r] is a mapping row (present or not)
    dropState,  \* table role_drop_state: dropState[g][u][r] is below_since, 0 for NULL or no row
    held,       \* the platform's role membership: held[g][u] is the set of roles of the member
    tasks,      \* the async functions in flight, each at its suspension point
    settings,   \* table guild_settings: settings[g] is the guild's row
    activity,   \* table activity_log: activity[g][u] is the sequence of the user's rows
    msgCooldown,      \* index.js, Map msgCooldown: lastTs of the key g:u, 0 when the key is absent
    reactionCooldown, \* index.js, Map reactionCooldown, likewise
    voice,      \* guild.voiceStates: voice[g][u] is the member's voice state
    impl,       \* which role synchronisation the build runs: roles.js or the one inside index.js
    faults,     \* the users whose row the storage refuses to write, and "activity_log" when
                \* it refuses to append to that table: the statement throws
    qualAt,     \* observation: when a sync pass last handled the role with the member qualified (0: never)
    passDone,   \* observation: the members whose sync pass returned in the last step
    timerAt,    \* observation: when a sync pass last started the drop timer of the role (0: never)
    applied,    \* observation: applied[g][u] is the sum of the deltas the award handlers passed to addXp
    lastAward,  \* observation: lastAward[g][u].message is when the user's last awarded message was
                \* handled, lastAward[g][u].reaction the last awarded reaction (0: never)
    event,      \* observation: the last message or reaction event and whether it was awarded
    ticksRun,   \* observation: how many voice ticks have started
    decayRuns,  \* observation: how many decay passes have started
    decayLog,   \* observation: what the decay pass did with each user it looked at
    obs,        \* observation: the last completed ledger call, the row before it and its return value
    levelLog,   \* observation: results of levelFromXp calls, records [xp, factor, level]
    cfgObs,     \* observation: the last settings update or slash command, its patch or
                \* interaction, the row or rows before and the result
    allowedChannels,  \* table allowed_command_channels: the channel ids of the guild's rows
    steps       \* number of events so far (bounds the exploration)

vars == <<now, users, levelRoles, dropState, held, tasks, settings, activity, msgCooldown,
          reactionCooldown, voice, impl, faults, qualAt, timerAt, passDone, applied, lastAward,
          event, ticksRun, decayRuns, decayLog, obs, levelLog, cfgObs, allowedChannels, steps>>

roleVars == <<levelRoles, dropState, held, tasks, impl, faults, qualAt, timerAt>>
awardVars == <<settings, activity, msgCooldown, reactionCooldown, voice>>
awardObs == <<applied, lastAward, event, ticksRun, decayRuns, decayLog>>

-----------------------------------------------------------------------------
(* Bounds of the model *)

\* Number.MAX_SAFE_INTEGER (2^53 - 1) in db.js; scaled down because the model
\* checker's integers are 32 bits wide.  Every input is chosen relative to it.
MAX_SAFE_XP == 1200

MaxSteps == 3
MaxLevelCalls == 2
\* How far the clock runs: whole days and single milliseconds past StartTime.
MaxDayTicks == 2
MaxMsTicks == 1
\* Rows of activity_log per user, voice ticks and decay passes explored.
MaxActivity == 2
MaxVoiceTicks == 2
MaxDecayRuns == 1
\* Firings of the decay cron job explored.
MaxCronFires == 2
\* Days of the daily cron job explored.
MaxCronDays == 4
\* XP the handlers award to a user (bounds the events when no activity row is written)
MaxApplied == 1500
\* Date.now() when the model starts (the real clock is near 1.7 * 10^12).
StartTime == 100000000

Guilds == {"g1"}
Users == {"u1", "u2", "u3", "b1"}

\* 24 * 60 * 60 * 1000 (roles.js, db.js)
DAY_MS == 86400000
\* index.js: 6 * 60 * 60 * 1000, the age after which cooldown entries are swept
SWEEP_MAX_AGE_MS == 21600000

Min(a, b) == IF a <= b THEN a ELSE b
Max(a, b) == IF a >= b THEN a ELSE b

-----------------------------------------------------------------------------
(* JavaScript numbers *)

\* A finite integer n.
Fin(n) == [t |-> "fin", i |-> n, f |-> FALSE]
\* A finite non-integer strictly between n and n+1 (so Math.floor gives n).
Frac(n) == [t |-> "fin", i |-> n, f |-> TRUE]
NaN == [t |-> "nan", i |-> 0, f |-> FALSE]
PosInf == [t |-> "pinf", i |-> 0, f |-> FALSE]
NegInf == [t |-> "ninf", i |-> 0, f |-> FALSE]
\* No row in the table (row?.xp is undefined).
NoRow == [t |-> "none", i |-> 0, f |-> FALSE]

IsFinite(x) == x.t = "fin"
IsInteger(x) == x.t = "fin" /\ ~x.f

\* Math.floor(Math.abs(x)) of a finite x.
FloorAbs(x) == IF x.i < 0 THEN (IF x.f THEN -x.i - 1 ELSE -x.i) ELSE x.i

-----------------------------------------------------------------------------
(* db.js: clamps *)

\* clampDelta(n): a finite integer delta, possibly negative.
clampDelta(n) ==
    IF ~IsFinite(n) THEN 0
    ELSE IF n.i = 0 /\ ~n.f THEN 0
    ELSE LET sign == IF n.i < 0 THEN -1 ELSE 1
             clampedAbs == Min(FloorAbs(n), MAX_SAFE_XP)
         IN sign * clampedAbs

\* A clamp that forgets the lower bound (x <= 0 is not tested).
clampXpTotal_NoFloorAtZero(n) ==
    IF ~IsFinite(n) THEN Fin(MAX_SAFE_XP)
    ELSE Fin(Min(n.i, MAX_SAFE_XP))

\* clampXpTotal(n): an XP total in [0, MAX_SAFE_XP]; non-finite gives MAX_SAFE_XP.
clampXpTotal(n) ==
    IF ~IsFinite(n) THEN Fin(MAX_SAFE_XP)
    ELSE IF n.i < 0 \/ (n.i = 0 /\ ~n.f) THEN Fin(0)
    ELSE Fin(Min(n.i, MAX_SAFE_XP))

\* row?.xp ?? 0
RowXpOrZero(row) == IF row = NoRow THEN Fin(0) ELSE row

-----------------------------------------------------------------------------
(* db.js: users / XP *)

\* ensureUser: INSERT ... VALUES (.., 0, ..) ON CONFLICT DO UPDATE SET updated_at
ensureUser(row) == IF row = NoRow THEN Fin(0) ELSE row

\* UPDATE users SET xp = MIN(MAX_SAFE_XP, MAX(0, xp + delta))
SqlClampAdd(row, delta) ==
    CASE row.t = "fin" ->
            LET v == [row EXCEPT !.i = row.i + delta]
                lo == IF v.i < 0 THEN Fin(0) ELSE v
            IN IF lo.i >= MAX_SAFE_XP THEN Fin(MAX_SAFE_XP) ELSE lo
      [] row.t = "pinf" -> Fin(MAX_SAFE_XP)
      [] row.t = "ninf" -> Fin(0)
      [] OTHER -> row

\* An addXp that applies the clamped delta without capping it to the headroom
\* or to the balance, and without clamping the sum.
addXp_Unclamped(row, delta) ==
    LET r0 == ensureUser(row)
        r1 == [r0 EXCEPT !.i = r0.i + clampDelta(delta)]
    IN [xp |-> r1, ret |-> r1]

\* addXp(guildId, userId, delta) on the row of that key: one transaction.
\* Gives the row after the call and the value returned.
\* Writes the delta over the balance instead of adding it to the stored one.
addXp_LostUpdate(row, delta) ==
    LET v == clampXpTotal(Fin(clampDelta(delta)))
    IN [xp |-> v, ret |-> v]

addXp(row, delta) ==
    LET r0 == ensureUser(row)
        currentXp == clampXpTotal(RowXpOrZero(r0))
        d == clampDelta(delta)
        safeDelta == IF d > 0 THEN Min(d, MAX_SAFE_XP - currentXp.i)
                     ELSE IF d < 0 THEN -Min(-d, currentXp.i)
                     ELSE d
    IN IF safeDelta = 0 THEN [xp |-> r0, ret |-> currentXp]
       ELSE LET r1 == SqlClampAdd(r0, safeDelta)
                safeXp == clampXpTotal(RowXpOrZero(r1))
            IN [xp |-> IF r1 # safeXp THEN safeXp ELSE r1, ret |-> safeXp]

\* setXp(guildId, userId, xp) on the row of that key: the row after the call.
setXp(row, xp) == clampXpTotal(xp)

\* A getXp that returns the normalised value and writes nothing.
getXp_ReadOnly(row) == [xp |-> row, ret |-> clampXpTotal(RowXpOrZero(row))]

\* getXp: the normalised value; a stored row that differs from it is repaired.
getXp(row) ==
    LET safe == clampXpTotal(RowXpOrZero(row))
    IN [xp |-> IF row # NoRow /\ row # safe THEN safe ELSE row, ret |-> safe]

-----------------------------------------------------------------------------
(* db.js: activity log *)

\* The fault that makes the INSERT of logActivity throw.
LogFault == "activity_log"
\* getGuildSettings throws for a guild that precedes the guilds of the model
\* in client.guilds.cache.
SettingsFault == "guild_settings"

\* Records every kind of event as a message.
logActivity_AsMessage(log, kind, amount) ==
    Append(log, [kind |-> "message", amount |-> amount, created_at |-> now])

\* logActivity: INSERT INTO activity_log (.., kind, amount, created_at = now())
logActivity(log, kind, amount) ==
    Append(log, [kind |-> kind, amount |-> amount, created_at |-> now])

RECURSIVE SumMessagesSince(_, _)
SumMessagesSince(log, since) ==
    IF log = <<>> THEN 0
    ELSE (IF Head(log).kind = "message" /\ Head(log).created_at >= since
          THEN Head(log).amount ELSE 0) + SumMessagesSince(Tail(log), since)

\* countMessagesInWindow: SUM(amount) WHERE kind='message' AND created_at >= since
countMessagesInWindow(log, windowDays) ==
    SumMessagesSince(log, now - windowDays * DAY_MS)

-----------------------------------------------------------------------------
(* xp.js: level curve *)

RECURSIVE SqrtFloorFrom(_, _)
SqrtFloorFrom(n, k) == IF (k + 1) * (k + 1) > n THEN k ELSE SqrtFloorFrom(n, k + 1)

\* Math.floor(Math.sqrt(q)) for an integer q >= 0
SqrtFloor(n) == SqrtFloorFrom(n, 0)

\* Math.abs(xp) where the code takes Math.max(0, xp).
levelFromXp_Abs(xp, levelXpFactor) ==
    LET factor == Max(1, IF levelXpFactor = 0 THEN 100 ELSE levelXpFactor)
        a == IF xp < 0 THEN -xp ELSE xp
    IN SqrtFloor(a \div factor)

\* levelFromXp(xp, levelXpFactor); Number(levelXpFactor) || 100 turns 0 into 100.
\* floor(sqrt(x / f)) = floor(sqrt(floor(x / f))) for integers x >= 0, f >= 1.
levelFromXp(xp, levelXpFactor) ==
    LET factor == Max(1, IF levelXpFactor = 0 THEN 100 ELSE levelXpFactor)
    IN SqrtFloor(Max(0, xp) \div factor)

-----------------------------------------------------------------------------
(* db.js: level roles and role drop state *)

Roles == {"r1", "r2"}
\* The rows of level_roles in rowid order.
RoleOrder == <<"r1", "r2">>

NoMapping == [present |-> FALSE, level_required |-> 0, drop_grace_days |-> 0]

RECURSIVE InsertByLevel(_, _)
InsertByLevel(row, seq) ==
    IF seq = <<>> THEN <<row>>
    ELSE IF row.level_required < Head(seq).level_required THEN <<row>> \o seq
    ELSE <<Head(seq)>> \o InsertByLevel(row, Tail(seq))

RECURSIVE ListLevelRolesFrom(_, _)
ListLevelRolesFrom(lr, k) ==
    IF k = 0 THEN <<>>
    ELSE LET r == RoleOrder[k]
             before == ListLevelRolesFrom(lr, k - 1)
         IN IF lr[r].present
            THEN InsertByLevel([role_id |-> r, level_required |-> lr[r].level_required,
                                drop_grace_days |-> lr[r].drop_grace_days], before)
            ELSE before

\* listLevelRoles(guildId): SELECT ... ORDER BY level_required ASC
listLevelRoles(lr) == ListLevelRolesFrom(lr, Len(RoleOrder))

-----------------------------------------------------------------------------
(* Async functions in flight *)

\* At most two async functions are in flight at a time.
TaskIds == {1, 2}

\* kind: idle | sync (a bare role synchronisation)
\* pc:   the await the function is suspended on: add | remove
\* xp, factor, gain, queue: what the function holds in its local variables
Idle == [kind |-> "idle", pc |-> "idle", g |-> "", u |-> "", level |-> 0,
         maps |-> <<>>, i |-> 0, nowMs |-> 0, xp |-> 0, cfg |-> <<>>, queue |-> <<>>]

\* What a synchronous stretch of code reads and writes.
Machine == [task |-> Idle, ds |-> dropState, held |-> held, qa |-> qualAt, ta |-> timerAt,
            done |-> {}, users |-> users, activity |-> activity, applied |-> applied,
            decayLog |-> decayLog]

FreeTask == CHOOSE t \in TaskIds :
                /\ tasks[t].kind = "idle"
                /\ \A s \in TaskIds : s < t => tasks[s].kind # "idle"

-----------------------------------------------------------------------------
(* roles.js and index.js: role synchronisation *)

RECURSIVE SyncLoop(_)

\* Keeps the drop timer when the member requalifies while holding the role.
syncMemberRoles_StepKeepTimer(m) ==
    LET t == m.task
        mp == t.maps[t.i]
        roleId == mp.role_id
        graceMs == Max(0, mp.drop_grace_days) * DAY_MS
        hasRole == roleId \in m.held[t.g][t.u]
        belowSince == m.ds[t.g][t.u][roleId]
        skip == [m EXCEPT !.task.i = t.i + 1]
    IN IF t.level >= mp.level_required THEN
            LET q == [m EXCEPT !.qa[t.g][t.u][roleId] = now]
            IN IF ~hasRole THEN [m EXCEPT !.task.pc = "add"]
               ELSE SyncLoop([q EXCEPT !.task.i = t.i + 1])
       ELSE IF belowSince = 0 THEN
            IF hasRole THEN SyncLoop([skip EXCEPT !.ds[t.g][t.u][roleId] = now, !.ta[t.g][t.u][roleId] = now])
            ELSE SyncLoop(skip)
       ELSE IF hasRole /\ (now - belowSince) > graceMs THEN [m EXCEPT !.task.pc = "remove"]
       ELSE SyncLoop(skip)

\* Restarts a running drop timer in every pass that finds the grace period
\* not over.
syncMemberRoles_StepRestartTimer(m) ==
    LET t == m.task
        mp == t.maps[t.i]
        roleId == mp.role_id
        graceMs == Max(0, mp.drop_grace_days) * DAY_MS
        hasRole == roleId \in m.held[t.g][t.u]
        belowSince == m.ds[t.g][t.u][roleId]
        skip == [m EXCEPT !.task.i = t.i + 1]
    IN IF t.level >= mp.level_required THEN
            LET q == [m EXCEPT !.qa[t.g][t.u][roleId] = now]
            IN IF ~hasRole THEN [m EXCEPT !.task.pc = "add"]
               ELSE SyncLoop([q EXCEPT !.ds[t.g][t.u][roleId] = 0, !.task.i = t.i + 1])
       ELSE IF hasRole /\ belowSince # 0 /\ (now - belowSince) > graceMs
            THEN [m EXCEPT !.task.pc = "remove"]
       ELSE IF hasRole THEN SyncLoop([skip EXCEPT !.ds[t.g][t.u][roleId] = now,
                                                   !.ta[t.g][t.u][roleId] = now])
       ELSE SyncLoop(skip)

\* roles.js, syncMemberRoles: the body of the loop for mapping t.maps[t.i],
\* up to the await of member.roles.add / member.roles.remove.
syncMemberRoles_Step(m) ==
    LET t == m.task
        mp == t.maps[t.i]
        roleId == mp.role_id
        required == mp.level_required
        graceMs == Max(0, mp.drop_grace_days) * DAY_MS
        hasRole == roleId \in m.held[t.g][t.u]
        meets == t.level >= required
        belowSince == m.ds[t.g][t.u][roleId]
        skip == [m EXCEPT !.task.i = t.i + 1]
    IN IF meets THEN
            LET q == [m EXCEPT !.qa[t.g][t.u][roleId] = now]
            IN IF ~hasRole THEN [m EXCEPT !.task.pc = "add"]
               \* clear drop timer regardless
               ELSE SyncLoop([q EXCEPT !.ds[t.g][t.u][roleId] = 0, !.task.i = t.i + 1])
       ELSE IF belowSince = 0 THEN
            \* Start timer only if they currently have the role.
            IF hasRole THEN SyncLoop([skip EXCEPT !.ds[t.g][t.u][roleId] = now, !.ta[t.g][t.u][roleId] = now])
            ELSE SyncLoop(skip)
       ELSE IF hasRole /\ (now - belowSince) > graceMs THEN [m EXCEPT !.task.pc = "remove"]
       ELSE SyncLoop(skip)

\* index.js, syncUserRolesForMember: the body of the loop for mapping t.maps[t.i].
\* nowMs is the Date.now() taken when the pass started.
syncUserRolesForMember_Step(m) ==
    LET t == m.task
        mp == t.maps[t.i]
        roleId == mp.role_id
        required == mp.level_required
        graceDays == Max(0, mp.drop_grace_days)
        graceMs == graceDays * DAY_MS
        hasRole == roleId \in m.held[t.g][t.u]
        qualifies == t.level >= required
        st == m.ds[t.g][t.u][roleId]
        skip == [m EXCEPT !.task.i = t.i + 1]
    IN IF qualifies THEN
            LET q == [m EXCEPT !.qa[t.g][t.u][roleId] = now]
            IN IF ~hasRole THEN [m EXCEPT !.task.pc = "add"]
               ELSE SyncLoop([q EXCEPT !.ds[t.g][t.u][roleId] = 0, !.task.i = t.i + 1])
       ELSE IF ~hasRole THEN
            \* nothing to remove, clear state
            SyncLoop([skip EXCEPT !.ds[t.g][t.u][roleId] = 0])
       ELSE IF st = 0 THEN SyncLoop([skip EXCEPT !.ds[t.g][t.u][roleId] = t.nowMs,
                                                   !.ta[t.g][t.u][roleId] = t.nowMs])
       ELSE IF graceMs = 0 \/ (t.nowMs - st) >= graceMs THEN [m EXCEPT !.task.pc = "remove"]
       ELSE SyncLoop(skip)

\* The for-loop over the mappings, from mapping t.i on, until an await or the end.
SyncLoop(m) ==
    IF m.task.i > Len(m.task.maps)
    THEN [m EXCEPT !.task.pc = "synced", !.done = m.done \cup {<<m.task.g, m.task.u>>}]
    ELSE IF impl = "roles" THEN syncMemberRoles_Step(m)
    ELSE syncUserRolesForMember_Step(m)

\* The platform's answer to roles.add / roles.remove: the membership after it.
PlatformApply(roles, pc, roleId, ok) ==
    IF ~ok THEN roles
    ELSE IF pc = "add" THEN roles \cup {roleId}
    ELSE roles \ {roleId}

\* Leaves the drop timer alone after the answer to roles.add.
SyncResume_KeepTimerAfterAdd(m) ==
    LET t == m.task
        roleId == t.maps[t.i].role_id
    IN IF t.pc = "add"
       THEN SyncLoop([m EXCEPT !.qa[t.g][t.u][roleId] = now, !.task.pc = "sync",
                               !.task.i = t.i + 1])
       ELSE SyncLoop([m EXCEPT !.ds[t.g][t.u][roleId] = 0, !.task.pc = "sync",
                               !.task.i = t.i + 1])

\* After the await: the catch logs a failure; below_since is set to NULL in
\* both builds (roles.js: after the try; index.js: "if set" / finally).
SyncResume(m) ==
    LET t == m.task
        roleId == t.maps[t.i].role_id
        q == IF t.pc = "add" THEN [m EXCEPT !.qa[t.g][t.u][roleId] = now] ELSE m
    IN SyncLoop([q EXCEPT !.ds[t.g][t.u][roleId] = 0, !.task.pc = "sync", !.task.i = t.i + 1])

-----------------------------------------------------------------------------
(* voiceTicker.js *)

isMutedOrDeafened(voiceState) ==
    voiceState.flags \cap {"selfMute", "serverMute", "selfDeaf", "serverDeaf"} # {}

\* The order in which guild.voiceStates.cache and the users table are iterated.
UserOrder == <<"u1", "u2", "u3", "b1">>
Bots == {"b1"}
\* guild.afkChannelId
AfkChannelId == "afk"

\* runVoiceTick, first loop: the voice states that count, in iteration order.
EligibleVoiceStates(vs) ==
    LET Counts(u) ==
            /\ vs[u].channelId # ""
            /\ vs[u].channelId # AfkChannelId
            /\ u \notin Bots
            /\ ~isMutedOrDeafened(vs[u])
    IN SelectSeq(UserOrder, Counts)

\* The keys of channelEligible in insertion order.
RECURSIVE ChannelKeys(_, _, _)
ChannelKeys(vs, members, seen) ==
    IF members = <<>> THEN <<>>
    ELSE LET c == vs[Head(members)].channelId
         IN IF c \in seen THEN ChannelKeys(vs, Tail(members), seen)
            ELSE <<c>> \o ChannelKeys(vs, Tail(members), seen \cup {c})

\* Awards in every channel, whatever the number of eligible members.
RECURSIVE AwardQueue_AnyChannel(_, _, _)
AwardQueue_AnyChannel(vs, members, channels) ==
    IF channels = <<>> THEN <<>>
    ELSE LET InHead(u) == vs[u].channelId = Head(channels)
         IN SelectSeq(members, InHead) \o AwardQueue_AnyChannel(vs, members, Tail(channels))

\* runVoiceTick, second loop: the members it awards, in order; channels with
\* fewer than two eligible members are skipped.
RECURSIVE AwardQueue(_, _, _)
AwardQueue(vs, members, channels) ==
    IF channels = <<>> THEN <<>>
    ELSE LET InHead(u) == vs[u].channelId = Head(channels)
             here == SelectSeq(members, InHead)
         IN (IF Len(here) < 2 THEN <<>> ELSE here) \o AwardQueue(vs, members, Tail(channels))

\* runVoiceTick: the body of the inner loop for the member at the head of the
\* queue, and on to the next member unless the role synchronisation suspends.
RECURSIVE VoiceLoop(_)
VoiceLoop(m) ==
    LET t == m.task
    IN IF t.queue = <<>> THEN [m EXCEPT !.task = Idle]
       ELSE LET u == Head(t.queue)
                xpPerMin == Max(0, t.cfg.voice_xp_per_min)
                r == addXp(m.users[t.g][u], Fin(xpPerMin))
                gx == getXp(r.xp)
                lvl == levelFromXp(gx.ret.i, t.cfg.level_xp_factor)
                m1 == [m EXCEPT !.users[t.g][u] = gx.xp,
                                !.activity[t.g][u] = logActivity(@, "voice_minute", 1),
                                !.applied[t.g][u] = @ + xpPerMin,
                                !.task.u = u, !.task.level = lvl,
                                !.task.maps = listLevelRoles(levelRoles[t.g]),
                                !.task.i = 1, !.task.pc = "sync"]
                m2 == SyncLoop(m1)
            IN IF u \in faults
               \* addXp throws: the catch of the member logs it
               THEN VoiceLoop([m EXCEPT !.task.queue = Tail(t.queue)])
               ELSE IF LogFault \in faults
               THEN VoiceLoop([m EXCEPT !.users[t.g][u] = r.xp,
                                        !.applied[t.g][u] = @ + xpPerMin,
                                        !.task.queue = Tail(t.queue)])
               ELSE IF m2.task.pc = "synced"
               THEN VoiceLoop([m2 EXCEPT !.task.queue = Tail(t.queue)])
               ELSE m2

-----------------------------------------------------------------------------
(* decay.js *)

\* allUsersInGuild: the rows of the guild, xp normalised.
allUsersInGuild(rows) ==
    LET HasRow(u) == rows[u] # NoRow
        ids == SelectSeq(UserOrder, HasRow)
    IN [k \in 1..Len(ids) |-> [user_id |-> ids[k], xp |-> clampXpTotal(rows[ids[k]]).i]]

\* Takes the stored percentage as it is.
DecayPct_Unclamped(cfg) == cfg.decay_percent

\* Math.min(0.95, Math.max(0, Number(settings.decay_percent) || 0)), in hundredths
DecayPct(cfg) == Min(95, Max(0, cfg.decay_percent))

\* Math.floor(u.xp * (1 - pct))
DecayedXp(xp, pct) == (xp * (100 - pct)) \div 100

\* runDecayForGuild: the body of the loop for the user at the head of the queue,
\* up to the await of guild.members.fetch.
RECURSIVE DecayLoop(_)
DecayLoop(m) ==
    LET t == m.task
    IN IF t.queue = <<>> THEN [m EXCEPT !.task = Idle]
       ELSE LET u == Head(t.queue)
                msgCount == countMessagesInWindow(m.activity[t.g][u.user_id],
                                                  t.cfg.decay_window_days)
                pct == DecayPct(t.cfg)
                newXp == DecayedXp(u.xp, pct)
                seen == [u |-> u.user_id, xp |-> u.xp, stored |-> m.users[t.g][u.user_id],
                         msgCount |-> msgCount, cfg |-> t.cfg, wrote |-> FALSE,
                         after |-> m.users[t.g][u.user_id], at |-> now,
                         log |-> m.activity[t.g][u.user_id]]
                next == [m EXCEPT !.task.queue = Tail(t.queue)]
            IN IF msgCount >= t.cfg.decay_min_messages \/ newXp = u.xp
               THEN DecayLoop([next EXCEPT !.decayLog = @ \cup {seen}])
               \* setXp throws: nothing in the loop catches it, runDecayForGuild
               \* rejects and the catch of the cron callback ends the pass.
               ELSE IF u.user_id \in faults THEN [m EXCEPT !.task = Idle]
               ELSE LET row == setXp(ensureUser(m.users[t.g][u.user_id]), Fin(newXp))
                    IN [m EXCEPT !.users[t.g][u.user_id] = row,
                                 !.decayLog = @ \cup {[seen EXCEPT !.wrote = TRUE,
                                                                    !.after = row]},
                                 !.task.u = u.user_id, !.task.xp = newXp,
                                 !.task.pc = "fetch"]

-----------------------------------------------------------------------------

\* What follows the role synchronisation in the caller.
AfterSync(m) ==
    IF m.task.pc # "synced" THEN m
    ELSE IF m.task.kind = "voice" THEN VoiceLoop([m EXCEPT !.task.queue = Tail(@)])
    ELSE IF m.task.kind = "decay" THEN DecayLoop([m EXCEPT !.task.queue = Tail(@)])
    ELSE [m EXCEPT !.task = Idle]

\* After the await of members.fetch in a handler or in the decay pass:
\* if (member) { lvl = levelFromXp(newXp, settings.level_xp_factor); await syncMemberRoles }
AfterFetch(m, found) ==
    LET t == m.task
    IN IF found
       THEN AfterSync(SyncLoop([m EXCEPT
                !.task.level = levelFromXp(t.xp, t.cfg.level_xp_factor),
                !.task.maps = listLevelRoles(levelRoles[t.g]),
                !.task.i = 1, !.task.pc = "sync"]))
       ELSE AfterSync([m EXCEPT !.task.pc = "synced"])

Commit(tid, m) ==
    /\ tasks' = [tasks EXCEPT ![tid] = m.task]
    /\ dropState' = m.ds
    /\ held' = m.held
    /\ qualAt' = m.qa
    /\ timerAt' = m.ta
    /\ passDone' = m.done
    /\ users' = m.users
    /\ activity' = m.activity
    /\ applied' = m.applied
    /\ decayLog' = m.decayLog

-----------------------------------------------------------------------------
(* Inputs *)

DeltaInputs ==
    { Fin(0), Fin(400), Fin(-300), Frac(250), Frac(-251), Fin(MAX_SAFE_XP),
      Fin(MAX_SAFE_XP + 7), Fin(-(MAX_SAFE_XP + 7)), NaN, PosInf, NegInf }

XpInputs ==
    { Fin(0), Fin(-5), Frac(-1), Frac(0), Fin(1000), Frac(900), Fin(MAX_SAFE_XP),
      Fin(MAX_SAFE_XP + 1), NaN, PosInf, NegInf }

LevelXpInputs == {-400, -1, 0, 1, 25, 45, 99, 100, 101, 399, 400, 900, MAX_SAFE_XP}
FactorInputs == {-5, 0, 1, 25, 100}

\* db.js, the column defaults of guild_settings (decay_percent in hundredths).
DefaultSettings ==
    [msg_xp |-> 5, reaction_xp |-> 2, voice_xp_per_min |-> 1, msg_cooldown_sec |-> 20,
     reaction_cooldown_sec |-> 10, decay_enabled |-> 1, decay_window_days |-> 7,
     decay_min_messages |-> 20, decay_percent |-> 10, level_xp_factor |-> 100]

\* A member who is in no voice channel.
NotInVoice == [channelId |-> "", flags |-> {}]

NoEvent == [kind |-> "none", g |-> "", u |-> "", at |-> 0, awarded |-> FALSE,
            prev |-> 0, gain |-> 0, cdSec |-> 0]

NoObs == [op |-> "none", g |-> "", u |-> "", arg |-> Fin(0), pre |-> NoRow, ret |-> Fin(0)]

-----------------------------------------------------------------------------
(* Ledger calls *)

AddXpCall(g, u, d) ==
    /\ steps < MaxSteps
    /\ steps' = steps + 1
    /\ LET r == addXp(users[g][u], d)
       IN /\ users' = [users EXCEPT ![g][u] = r.xp]
          /\ obs' = [op |-> "addXp", g |-> g, u |-> u, arg |-> d,
                     pre |-> users[g][u], ret |-> r.ret]
    /\ passDone' = {}
    /\ UNCHANGED <<now, roleVars, awardVars, awardObs, levelLog, cfgObs, allowedChannels>>

\* A setXp whose UPDATE selects the rows by guild only.
SetXpCall_AllUsersOfGuild(g, u, x) ==
    /\ steps < MaxSteps
    /\ steps' = steps + 1
    /\ users' = [users EXCEPT ![g] = [v \in Users |->
                     IF v = u \/ users[g][v] # NoRow THEN setXp(ensureUser(users[g][v]), x)
                     ELSE NoRow]]
    /\ obs' = [op |-> "setXp", g |-> g, u |-> u, arg |-> x,
               pre |-> users[g][u], ret |-> Fin(0)]
    /\ passDone' = {}
    /\ UNCHANGED <<now, roleVars, awardVars, awardObs, levelLog, cfgObs, allowedChannels>>

SetXpCall(g, u, x) ==
    /\ steps < MaxSteps
    /\ steps' = steps + 1
    /\ users' = [users EXCEPT ![g][u] = setXp(ensureUser(users[g][u]), x)]
    /\ obs' = [op |-> "setXp", g |-> g, u |-> u, arg |-> x,
               pre |-> users[g][u], ret |-> Fin(0)]
    /\ passDone' = {}
    /\ UNCHANGED <<now, roleVars, awardVars, awardObs, levelLog, cfgObs, allowedChannels>>

LevelFromXpCall(x, f) ==
    /\ Cardinality(levelLog) < MaxLevelCalls
    /\ levelLog' = levelLog \cup {[xp |-> x, factor |-> f, level |-> levelFromXp(x, f)]}
    /\ passDone' = {}
    /\ UNCHANGED <<now, users, roleVars, awardVars, awardObs, obs, cfgObs, allowedChannels, steps>>

-----------------------------------------------------------------------------
(* Role synchronisation: events *)

\* syncMemberRoles(member, level) / syncUserRolesForMember called on its own.
SyncTask(g, u, lvl) ==
    [Idle EXCEPT !.kind = "sync", !.pc = "sync", !.g = g, !.u = u,
                 !.level = lvl, !.maps = listLevelRoles(levelRoles[g]),
                 !.i = 1, !.nowMs = IF impl = "inline" THEN now ELSE 0]

StartSync(g, u, lvl) ==
    /\ \E t \in TaskIds : tasks[t].kind = "idle"
    /\ Commit(FreeTask, AfterSync(SyncLoop([Machine EXCEPT !.task = SyncTask(g, u, lvl)])))
    /\ UNCHANGED <<now, levelRoles, impl, faults, settings, msgCooldown, reactionCooldown, voice,
                   lastAward, event, ticksRun, decayRuns, obs, levelLog, cfgObs, allowedChannels, steps>>

\* A failed request ends the calling function instead of being caught.
RoleReply_FailureAborts(tid, ok) ==
    /\ tasks[tid].pc \in {"add", "remove"}
    /\ LET t == tasks[tid]
           roleId == t.maps[t.i].role_id
           h == PlatformApply(held[t.g][t.u], t.pc, roleId, ok)
       IN IF ok
          THEN Commit(tid, AfterSync(SyncResume(
                   [Machine EXCEPT !.task = t, !.held[t.g][t.u] = h])))
          ELSE Commit(tid, [Machine EXCEPT !.task = Idle])
    /\ UNCHANGED <<now, levelRoles, impl, faults, settings, msgCooldown, reactionCooldown, voice,
                   lastAward, event, ticksRun, decayRuns, obs, levelLog, cfgObs, allowedChannels, steps>>

\* The platform answers a pending roles.add / roles.remove; the function resumes.
RoleReply(tid, ok) ==
    /\ tasks[tid].pc \in {"add", "remove"}
    /\ LET t == tasks[tid]
           roleId == t.maps[t.i].role_id
           h == PlatformApply(held[t.g][t.u], t.pc, roleId, ok)
       IN Commit(tid, AfterSync(SyncResume(
              [Machine EXCEPT !.task = t, !.held[t.g][t.u] = h])))
    /\ UNCHANGED <<now, levelRoles, impl, faults, settings, msgCooldown, reactionCooldown, voice,
                   lastAward, event, ticksRun, decayRuns, obs, levelLog, cfgObs, allowedChannels, steps>>

\* Time passes.
Tick(d) ==
    /\ d = 1 => (now - StartTime) % DAY_MS < MaxMsTicks
    /\ d = DAY_MS => (now - StartTime) \div DAY_MS < MaxDayTicks
    /\ now' = now + d
    /\ passDone' = {}
    /\ UNCHANGED <<users, roleVars, awardVars, awardObs, obs, levelLog, cfgObs, allowedChannels, steps>>

\* Somebody with Manage Roles gives or takes a role by hand.
ExternalRoleChange(g, u, r) ==
    /\ levelRoles[g][r].present
    /\ passDone' = {}
    /\ held' = [held EXCEPT ![g][u] =
                   IF r \in held[g][u] THEN held[g][u] \ {r} ELSE held[g][u] \cup {r}]
    /\ UNCHANGED <<now, users, levelRoles, dropState, tasks, impl, faults, qualAt, timerAt,
                   awardVars, awardObs, obs, levelLog, cfgObs, allowedChannels, steps>>

\* /leveltorole remove: deleteLevelRole(guildId, roleId) deletes the mapping and
\* the role_drop_state rows of the role.
deleteLevelRole(g, r) ==
    /\ levelRoles[g][r].present
    /\ levelRoles' = [levelRoles EXCEPT ![g][r] = NoMapping]
    /\ dropState' = [dropState EXCEPT ![g] = [u \in Users |-> [@[u] EXCEPT ![r] = 0]]]
    /\ passDone' = {}
    /\ UNCHANGED <<now, users, held, tasks, impl, faults, qualAt, timerAt,
                   awardVars, awardObs, obs, levelLog, cfgObs, allowedChannels, steps>>

-----------------------------------------------------------------------------
(* index.js: award handlers *)

\* A handler that got past its checks: cooldown stamp, addXp, logActivity, and
\* the function suspends on guild.members.fetch.  When addXp or logActivity
\* throws, the catch of the handler logs the error and the handler is over.
Award(kind, g, u, gain, cfg) ==
    LET r == addXp(users[g][u], Fin(gain))
        t == [Idle EXCEPT !.kind = kind, !.pc = "fetch", !.g = g, !.u = u,
                          !.xp = r.ret.i, !.cfg = cfg]
    IN /\ applied[g][u] < MaxApplied
       /\ IF u \in faults
          \* addXp throws
          THEN UNCHANGED <<users, applied, activity, tasks>>
          ELSE /\ users' = [users EXCEPT ![g][u] = r.xp]
               /\ applied' = [applied EXCEPT ![g][u] = @ + gain]
               /\ IF LogFault \in faults
                  THEN UNCHANGED <<activity, tasks>>
                  ELSE /\ activity' = [activity EXCEPT ![g][u] = logActivity(@, kind, 1)]
                       /\ tasks' = [tasks EXCEPT ![FreeTask] = t]

\* client.on(Events.MessageCreate): a message of user u in guild g.
MessageCreate(g, u) ==
    /\ \E t \in TaskIds : tasks[t].kind = "idle"
    /\ Len(activity[g][u]) < MaxActivity
    /\ LET cfg == settings[g]
           gain == cfg.msg_xp
           cdSec == Max(0, cfg.msg_cooldown_sec)
           last == msgCooldown[g][u]
           nowMs == now
           awarded == /\ u \notin Bots
                      /\ ~(gain <= 0)
                      /\ ~(cdSec > 0 /\ (nowMs - last) < cdSec * 1000)
       IN /\ event' = [kind |-> "message", g |-> g, u |-> u, at |-> now, awarded |-> awarded,
                        prev |-> lastAward[g][u].message, gain |-> gain,
                        cdSec |-> cfg.msg_cooldown_sec]
          /\ IF awarded
             THEN /\ msgCooldown' = [msgCooldown EXCEPT ![g][u] = nowMs]
                  /\ lastAward' = [lastAward EXCEPT ![g][u].message = now]
                  /\ Award("message", g, u, gain, cfg)
             ELSE UNCHANGED <<msgCooldown, lastAward, users, activity, applied, tasks>>
    /\ passDone' = {}
    /\ UNCHANGED <<now, levelRoles, dropState, held, impl, faults, qualAt, timerAt, settings,
                   reactionCooldown, voice, ticksRun, decayRuns, decayLog, obs, levelLog, cfgObs, allowedChannels, steps>>

\* client.on(Events.MessageReactionAdd): a reaction of user u in guild g
\* (reaction and message are not partial).
MessageReactionAdd(g, u) ==
    /\ \E t \in TaskIds : tasks[t].kind = "idle"
    /\ Len(activity[g][u]) < MaxActivity
    /\ LET cfg == settings[g]
           gain == cfg.reaction_xp
           cdSec == Max(0, cfg.reaction_cooldown_sec)
           last == reactionCooldown[g][u]
           nowMs == now
           awarded == /\ u \notin Bots
                      /\ ~(gain <= 0)
                      /\ ~(cdSec > 0 /\ (nowMs - last) < cdSec * 1000)
       IN /\ event' = [kind |-> "reaction", g |-> g, u |-> u, at |-> now, awarded |-> awarded,
                        prev |-> lastAward[g][u].reaction, gain |-> gain,
                        cdSec |-> cfg.reaction_cooldown_sec]
          /\ IF awarded
             THEN /\ reactionCooldown' = [reactionCooldown EXCEPT ![g][u] = nowMs]
                  /\ lastAward' = [lastAward EXCEPT ![g][u].reaction = now]
                  /\ Award("reaction", g, u, gain, cfg)
             ELSE UNCHANGED <<reactionCooldown, lastAward, users, activity, applied, tasks>>
    /\ passDone' = {}
    /\ UNCHANGED <<now, levelRoles, dropState, held, impl, faults, qualAt, timerAt, settings,
                   msgCooldown, voice, ticksRun, decayRuns, decayLog, obs,
                   levelLog, cfgObs, allowedChannels, steps>>

\* guild.members.fetch answers (a member, or null when it failed); the function resumes.
FetchReply(tid, found) ==
    /\ tasks[tid].pc = "fetch"
    /\ Commit(tid, AfterFetch([Machine EXCEPT !.task = tasks[tid]], found))
    /\ UNCHANGED <<now, levelRoles, impl, faults, settings, msgCooldown, reactionCooldown, voice,
                   lastAward, event, ticksRun, decayRuns, obs, levelLog, cfgObs, allowedChannels, steps>>

\* sweepCooldownMap(map, maxAgeMs)
sweepCooldownMap(map, maxAgeMs) ==
    LET cutoff == now - maxAgeMs
    IN [g \in Guilds |-> [u \in Users |->
           IF map[g][u] # 0 /\ map[g][u] < cutoff THEN 0 ELSE map[g][u]]]

\* The 10-minute interval that sweeps both cooldown maps.
SweepCooldowns ==
    /\ msgCooldown' = sweepCooldownMap(msgCooldown, SWEEP_MAX_AGE_MS)
    /\ reactionCooldown' = sweepCooldownMap(reactionCooldown, SWEEP_MAX_AGE_MS)
    /\ passDone' = {}
    /\ UNCHANGED <<now, users, roleVars, settings, activity, voice, awardObs, obs,
                   levelLog, cfgObs, allowedChannels, steps>>

\* Time passes (d milliseconds).
Elapse(d) ==
    /\ steps < MaxSteps
    /\ steps' = steps + 1
    /\ now' = now + d
    /\ passDone' = {}
    /\ UNCHANGED <<users, roleVars, awardVars, awardObs, obs, levelLog, cfgObs, allowedChannels>>

-----------------------------------------------------------------------------
(* voiceTicker.js and decay.js: scheduled passes *)

\* The minute timer fires: runVoiceTick(client).
VoiceTick(g) ==
    /\ \E t \in TaskIds : tasks[t].kind = "idle"
    /\ ticksRun < MaxVoiceTicks
    /\ ticksRun' = ticksRun + 1
    /\ LET cfg == settings[g]
           xpPerMin == Max(0, cfg.voice_xp_per_min)
           members == EligibleVoiceStates(voice[g])
           queue == AwardQueue(voice[g], members, ChannelKeys(voice[g], members, {}))
           t == [Idle EXCEPT !.kind = "voice", !.pc = "sync", !.g = g, !.cfg = cfg,
                             !.queue = IF xpPerMin <= 0 THEN <<>> ELSE queue]
       IN Commit(FreeTask, VoiceLoop([Machine EXCEPT !.task = t]))
    /\ UNCHANGED <<now, levelRoles, impl, faults, settings, msgCooldown, reactionCooldown, voice,
                   lastAward, event, decayRuns, obs, levelLog, cfgObs, allowedChannels, steps>>

\* runVoiceTick(client) with a guild cache that holds another guild before g.
\* The other guild has no voice states; reading its settings throws when
\* SettingsFault is set, which ends runVoiceTick (the caller's catch).
VoiceTickBehind(g) ==
    IF SettingsFault \in faults
    THEN /\ \E t \in TaskIds : tasks[t].kind = "idle"
         /\ ticksRun < MaxVoiceTicks
         /\ ticksRun' = ticksRun + 1
         /\ passDone' = {}
         /\ UNCHANGED <<now, users, roleVars, awardVars, applied, lastAward, event, decayRuns,
                        decayLog, obs, levelLog, cfgObs, allowedChannels, steps>>
    ELSE VoiceTick(g)

\* runDecayForGuild(client, g), up to the await of guilds.fetch, called at
\* time at as the n-th pass counted.
runDecayForGuild_At(g, at, n) ==
    /\ \E tid \in TaskIds : tasks[tid].kind = "idle"
    /\ now' = at
    /\ decayRuns' = n
    /\ LET cfg == settings[g]
           t == [Idle EXCEPT !.kind = "decay", !.pc = "guild", !.g = g, !.cfg = cfg]
       IN tasks' = [tasks EXCEPT ![FreeTask] = IF cfg.decay_enabled = 0 THEN Idle ELSE t]
    /\ passDone' = {}
    /\ UNCHANGED <<users, levelRoles, dropState, held, impl, faults, qualAt, timerAt, awardVars,
                   applied, lastAward, event, ticksRun, decayLog, obs, levelLog, cfgObs,
                   allowedChannels, steps>>

runDecayForGuild_Start(g) == runDecayForGuild_At(g, now, decayRuns + 1)

\* A decay pass over guild g starts.
DecayStart(g) == decayRuns < MaxDecayRuns /\ runDecayForGuild_Start(g)

\* startDecayScheduler: the cron expression matches and the callback runs
\* runDecayForGuild for the guilds of the cache, whatever else is in flight.
CronFire(g) == decayRuns < MaxCronFires /\ runDecayForGuild_Start(g)

\* The cron job of every day: a day has passed and the callback runs
\* runDecayForGuild.  Past MaxCronDays the clock of the model stands still and
\* the passes are no longer counted, so that the job can fire for ever.
CronDay(g) ==
    /\ LET nextDay == IF (now - StartTime) \div DAY_MS < MaxCronDays
                      THEN now + DAY_MS ELSE now
       IN  runDecayForGuild_At(g, nextDay, Min(decayRuns + 1, MaxCronFires))

\* client.guilds.fetch answers; with a guild the pass reads the users and starts its loop.
GuildReply(tid, found) ==
    /\ tasks[tid].pc = "guild"
    /\ LET t == tasks[tid]
           m == [Machine EXCEPT !.task = [t EXCEPT !.queue =
                    IF found THEN allUsersInGuild(users[t.g]) ELSE <<>>]]
       IN Commit(tid, DecayLoop(m))
    /\ UNCHANGED <<now, levelRoles, impl, faults, settings, msgCooldown, reactionCooldown, voice,
                   lastAward, event, ticksRun, decayRuns, obs, levelLog, cfgObs, allowedChannels, steps>>

-----------------------------------------------------------------------------
(* db.js: guild settings *)

\* db.js and index.js: MAX_XP_AWARD = 1_000_000_000
MAX_XP_AWARD == 1000000000

\* updateGuildSettings: the set "allowed"
SettingsFields == DOMAIN DefaultSettings

XpFields == {"msg_xp", "reaction_xp", "voice_xp_per_min"}

\* clampAward(v) for an integer v
clampAward(v) == Max(0, Min(v, MAX_XP_AWARD))

\* No row of guild_settings for the guild.
NoSettingsRow == [absent |-> TRUE]

\* An ensureGuildSettings that replaces the row (INSERT OR REPLACE).
ensureGuildSettings_Replace(all, g) == [all EXCEPT ![g] = DefaultSettings]

\* ensureGuildSettings: INSERT ... ON CONFLICT(guild_id) DO UPDATE SET updated_at;
\* a new row takes the column defaults.
ensureGuildSettings(all, g) ==
    IF all[g] = NoSettingsRow THEN [all EXCEPT ![g] = DefaultSettings] ELSE all

\* getGuildSettings(guildId): the table after the call and the row returned
getGuildSettings(all, g) ==
    LET ensured == ensureGuildSettings(all, g)
    IN [stored |-> ensured, ret |-> ensured[g]]

\* updateGuildSettings(guildId, patch) on the table all; patch is a function
\* from its keys to their values.  The statement runs with the parameters
\* { guild_id: guildId, updated_at: now(), ...safePatch }, so that a key
\* guild_id of the patch replaces the guild the UPDATE selects.
updateGuildSettings(all, g, patch) ==
    LET keys == (DOMAIN patch) \cap SettingsFields
        safe(k) == IF k \in XpFields THEN clampAward(patch[k]) ELSE patch[k]
        target == IF "guild_id" \in DOMAIN patch THEN patch["guild_id"] ELSE g
        ensured == ensureGuildSettings(all, g)
        stored == IF keys = {} \/ target \notin Guilds THEN ensured
                  ELSE [ensured EXCEPT ![target] =
                           [f \in SettingsFields |-> IF f \in keys THEN safe(f) ELSE @[f]]]
    IN [stored |-> stored, ret |-> stored[g]]

NoCfgObs == [op |-> "none", g |-> "", patch |-> <<>>, pre |-> <<>>, ret |-> <<>>,
             rejected |-> FALSE]

\* A caller runs updateGuildSettings(g, patch).
UpdateGuildSettingsCall(g, patch) ==
    /\ LET r == updateGuildSettings(settings, g, patch)
       IN /\ settings' = r.stored
          /\ cfgObs' = [op |-> "update", g |-> g, patch |-> patch, pre |-> settings[g],
                        ret |-> r.ret, rejected |-> FALSE]
    /\ passDone' = {}
    /\ UNCHANGED <<now, users, roleVars, activity, msgCooldown, reactionCooldown, voice,
                   awardObs, obs, levelLog, allowedChannels, steps>>

\* validateXpValue without its upper limit
validateXpValue_NoUpperLimit(opts, k) ==
    /\ k \in DOMAIN opts
    /\ opts[k] < 0

\* validateXpValue(value, label) for the option k of the options opts, an
\* absent option being null: TRUE when it returns an error message.
validateXpValue(opts, k) ==
    /\ k \in DOMAIN opts
    /\ (opts[k] < 0 \/ opts[k] > MAX_XP_AWARD)

\* register-commands.js: every integer option of /setxp has setMinValue(0);
\* an interaction whose option is below it is refused by Discord and the
\* handler does not run.
SetXpOptionsAccepted(opts) == \A k \in DOMAIN opts : opts[k] >= 0

\* register-commands.js: /setdecay messages has setMinValue(0), days
\* setMinValue(1), percent setMinValue(0) and setMaxValue(95).
SetDecayOptionsAccepted(opts) ==
    /\ "messages" \in DOMAIN opts => opts["messages"] >= 0
    /\ "days" \in DOMAIN opts => opts["days"] >= 1
    /\ "percent" \in DOMAIN opts => (opts["percent"] >= 0 /\ opts["percent"] <= 95)

\* /setxp: the settings column each option is stored in
SetXpColumn ==
    [message |-> "msg_xp", reaction |-> "reaction_xp", voice |-> "voice_xp_per_min",
     msgcooldown |-> "msg_cooldown_sec", reactioncooldown |-> "reaction_cooldown_sec"]

\* /setxp: the patch built from the options that are not null
SetXpPatch(opts) ==
    [c \in {SetXpColumn[k] : k \in DOMAIN opts} |->
        opts[CHOOSE k \in DOMAIN opts : SetXpColumn[k] = c]]

\* /setdecay: the patch built from the options that are not null; percent
\* is a number of percent and decay_percent is kept in hundredths.
SetDecayPatch(opts) ==
    [c \in {IF k = "messages" THEN "decay_min_messages"
            ELSE IF k = "days" THEN "decay_window_days"
            ELSE IF k = "percent" THEN "decay_percent" ELSE "decay_enabled" : k \in DOMAIN opts} |->
        IF c = "decay_min_messages" THEN Max(0, opts["messages"])
        ELSE IF c = "decay_window_days" THEN Max(1, opts["days"])
        ELSE IF c = "decay_percent" THEN Max(0, Min(95, opts["percent"]))
        ELSE opts["enabled"]]

\* The outcome of a settings command in guild g: Discord refuses options
\* outside the registered limits (accepted is FALSE), the handler replies
\* with the validation errors and returns (invalid), or it runs
\* updateGuildSettings with the patch it built.
CommandOutcome(op, g, opts, accepted, invalid, patch) ==
    LET rejected == ~accepted \/ invalid
        r == updateGuildSettings(settings, g, patch)
    IN [stored |-> IF rejected THEN settings ELSE r.stored,
        obs |-> [op |-> op, g |-> g, patch |-> opts, pre |-> settings[g],
                 ret |-> IF rejected THEN <<>> ELSE r.ret, rejected |-> rejected]]

\* An administrator runs /setxp with the options opts in guild g.
SetXpCommand(g, opts) ==
    /\ LET o == CommandOutcome("setxp", g, opts, SetXpOptionsAccepted(opts),
                    \E k \in {"message", "reaction", "voice"} : validateXpValue(opts, k),
                    SetXpPatch(opts))
       IN /\ settings' = o.stored
          /\ cfgObs' = o.obs
    /\ passDone' = {}
    /\ UNCHANGED <<now, users, roleVars, activity, msgCooldown, reactionCooldown, voice,
                   awardObs, obs, levelLog, allowedChannels, steps>>

\* An administrator runs /setdecay with the options opts in guild g.
SetDecayCommand(g, opts) ==
    /\ LET o == CommandOutcome("setdecay", g, opts, SetDecayOptionsAccepted(opts), FALSE,
                    SetDecayPatch(opts))
       IN /\ settings' = o.stored
          /\ cfgObs' = o.obs
    /\ passDone' = {}
    /\ UNCHANGED <<now, users, roleVars, activity, msgCooldown, reactionCooldown, voice,
                   awardObs, obs, levelLog, allowedChannels, steps>>

-----------------------------------------------------------------------------
(* db.js: leaderboard *)

\* How SQLite orders a stored xp: numerically, with NULL below every number.
SqlRank(x) ==
    CASE x.t = "fin"  -> 2 * x.i + (IF x.f THEN 1 ELSE 0)
      [] x.t = "pinf" -> 2 * MAX_SAFE_XP + 100
      [] x.t = "ninf" -> -(2 * MAX_SAFE_XP + 100)
      [] OTHER        -> -(2 * MAX_SAFE_XP + 200)

\* A sorter that puts a row in front of the rows of equal xp.
RECURSIVE InsertByXp_TiesFirst(_, _, _)
InsertByXp_TiesFirst(rows, u, seq) ==
    IF seq = <<>> THEN <<u>>
    ELSE IF SqlRank(rows[u]) >= SqlRank(rows[Head(seq)]) THEN <<u>> \o seq
    ELSE <<Head(seq)>> \o InsertByXp_TiesFirst(rows, u, Tail(seq))

\* ORDER BY xp DESC: the sorter keeps rows of equal xp in the order the
\* primary-key index (guild_id, user_id) delivered them.
RECURSIVE InsertByXp(_, _, _)
InsertByXp(rows, u, seq) ==
    IF seq = <<>> THEN <<u>>
    ELSE IF SqlRank(rows[u]) > SqlRank(rows[Head(seq)]) THEN <<u>> \o seq
    ELSE <<Head(seq)>> \o InsertByXp(rows, u, Tail(seq))

RECURSIVE OrderByXpDesc(_, _)
OrderByXpDesc(rows, k) ==
    IF k = 0 THEN <<>>
    ELSE LET u == UserOrder[k]
             before == OrderByXpDesc(rows, k - 1)
         IN IF rows[u] # NoRow THEN InsertByXp(rows, u, before) ELSE before

\* topUsers(guildId, limit) on the rows of the guild: the list returned and
\* the rows after the call (every returned row is rewritten when one of them
\* was not normalised).
topUsers(rows, limit) ==
    LET sorted == OrderByXpDesc(rows, Len(UserOrder))
        ids == SubSeq(sorted, 1, Min(limit, Len(sorted)))
        out == [k \in 1..Len(ids) |-> [user_id |-> ids[k], xp |-> clampXpTotal(rows[ids[k]]).i]]
        changed == \E k \in 1..Len(ids) : rows[ids[k]] # Fin(out[k].xp)
        returned == {ids[k] : k \in 1..Len(ids)}
    IN [rows |-> IF changed
                 THEN [u \in DOMAIN rows |-> IF u \in returned THEN clampXpTotal(rows[u]) ELSE rows[u]]
                 ELSE rows,
        ret |-> out]

\* A caller runs topUsers(g, limit); /leaderboard runs it with limit 10.
TopUsersCall(g, limit) ==
    /\ LET r == topUsers(users[g], limit)
       IN /\ users' = [users EXCEPT ![g] = r.rows]
          /\ obs' = [op |-> "topUsers", g |-> g, u |-> "", arg |-> Fin(limit),
                     pre |-> users[g], ret |-> r.ret]
    /\ passDone' = {}
    /\ UNCHANGED <<now, roleVars, awardVars, awardObs, levelLog, cfgObs, allowedChannels, steps>>

\* A caller runs getXp(g, u).
GetXpCall(g, u) ==
    /\ LET r == getXp(users[g][u])
       IN /\ users' = [users EXCEPT ![g][u] = r.xp]
          /\ obs' = [op |-> "getXp", g |-> g, u |-> u, arg |-> Fin(0),
                     pre |-> users[g][u], ret |-> r.ret]
    /\ passDone' = {}
    /\ UNCHANGED <<now, roleVars, awardVars, awardObs, levelLog, cfgObs, allowedChannels, steps>>

-----------------------------------------------------------------------------
(* index.js: command channel restriction *)

\* The check without the exception for /setcommandchannel.
commandsAllowed_NoException(rows, commandName, channelId, admin) ==
    rows = {} \/ channelId \in rows

\* commandsAllowed(interaction), rows being listAllowedCommandChannels(guildId)
\* and admin isAdminOrMod(interaction): the member has Manage Guild.
commandsAllowed(rows, commandName, channelId, admin) ==
    \/ commandName = "setcommandchannel" /\ admin
    \/ rows = {}
    \/ channelId \in rows

\* addAllowedCommandChannel: INSERT OR IGNORE
addAllowedCommandChannel(rows, channelId) == rows \cup {channelId}

\* removeAllowedCommandChannel: DELETE ... WHERE guild_id=? AND channel_id=?
removeAllowedCommandChannel(rows, channelId) == rows \ {channelId}

\* client.on(Events.InteractionCreate) for the command i.commandName sent
\* from the channel i.channelId of guild g; for /setcommandchannel, i.sub is
\* the subcommand and i.target its channel option.
InteractionCreate(g, i) ==
    /\ LET rows == allowedChannels[g]
           allowed == commandsAllowed(rows, i.commandName, i.channelId, i.admin)
           runs == allowed /\ i.commandName = "setcommandchannel" /\ i.admin
       IN /\ allowedChannels' =
                 [allowedChannels EXCEPT ![g] =
                     IF runs /\ i.sub = "add" THEN addAllowedCommandChannel(rows, i.target)
                     ELSE IF runs /\ i.sub = "remove"
                          THEN removeAllowedCommandChannel(rows, i.target)
                     ELSE rows]
          /\ cfgObs' = [op |-> "interaction", g |-> g, patch |-> i, pre |-> rows,
                        ret |-> <<>>, rejected |-> ~allowed]
    /\ passDone' = {}
    /\ UNCHANGED <<now, users, roleVars, awardVars, awardObs, obs, levelLog, steps>>

\* A caller runs getGuildSettings(g).
GetGuildSettingsCall(g) ==
    /\ LET r == getGuildSettings(settings, g)
       IN /\ settings' = r.stored
          /\ cfgObs' = [op |-> "get", g |-> g, patch |-> <<>>, pre |-> settings[g],
                        ret |-> r.ret, rejected |-> FALSE]
    /\ passDone' = {}
    /\ UNCHANGED <<now, users, roleVars, activity, msgCooldown, reactionCooldown, voice,
                   awardObs, obs, levelLog, allowedChannels, steps>>

(* index.js with the decay inside the message handler *)

\* maybeApplyDecay(guildId, userId, currentXp, settings): the (negative) delta
\* to apply, 0 when decay is disabled or the user wrote enough messages.
maybeApplyDecay(log, currentXp, cfg) ==
    IF cfg.decay_enabled = 0 THEN 0
    ELSE LET windowDays == Max(1, IF cfg.decay_window_days = 0 THEN 7
                                  ELSE cfg.decay_window_days)
             minMsgs == Max(0, cfg.decay_min_messages)
             pct == DecayPct(cfg)
             msgCount == countMessagesInWindow(log, windowDays)
             loss == (currentXp * pct) \div 100
         IN IF msgCount >= minMsgs THEN 0
            ELSE IF loss > 0 THEN -loss ELSE 0

\* client.on(Events.MessageCreate) of the index.js that holds maybeApplyDecay:
\* after addXp and logActivity the handler applies the decay delta to the
\* author and syncs the roles with the final XP.
MessageCreate_Decay(g, u) ==
    /\ impl = "inline"
    /\ \E t \in TaskIds : tasks[t].kind = "idle"
    /\ Len(activity[g][u]) < MaxActivity
    /\ LET cfg == settings[g]
           gain == cfg.msg_xp
           cdSec == Max(0, cfg.msg_cooldown_sec)
           last == msgCooldown[g][u]
           nowMs == now
           awarded == /\ u \notin Bots
                      /\ ~(gain <= 0)
                      /\ ~(cdSec > 0 /\ (nowMs - last) < cdSec * 1000)
           r == addXp(users[g][u], Fin(gain))
           log == logActivity(activity[g][u], "message", 1)
           decayDelta == maybeApplyDecay(log, r.ret.i, cfg)
           final == IF decayDelta # 0 THEN addXp(r.xp, Fin(decayDelta)) ELSE r
           t == [Idle EXCEPT !.kind = "message", !.pc = "fetch", !.g = g, !.u = u,
                             !.xp = final.ret.i, !.cfg = cfg]
       IN /\ event' = [kind |-> "message", g |-> g, u |-> u, at |-> now, awarded |-> awarded,
                        prev |-> lastAward[g][u].message, gain |-> gain,
                        cdSec |-> cfg.msg_cooldown_sec]
          /\ IF awarded
             THEN /\ msgCooldown' = [msgCooldown EXCEPT ![g][u] = nowMs]
                  /\ lastAward' = [lastAward EXCEPT ![g][u].message = now]
                  /\ users' = [users EXCEPT ![g][u] = final.xp]
                  /\ applied' = [applied EXCEPT ![g][u] = @ + gain]
                  /\ activity' = [activity EXCEPT ![g][u] = log]
                  /\ tasks' = [tasks EXCEPT ![FreeTask] = t]
             ELSE UNCHANGED <<msgCooldown, lastAward, users, activity, applied, tasks>>
    /\ passDone' = {}
    /\ UNCHANGED <<now, levelRoles, dropState, held, impl, faults, qualAt, timerAt, settings,
                   reactionCooldown, voice, ticksRun, decayRuns, decayLog, obs, levelLog,
                   cfgObs, allowedChannels, steps>>

-----------------------------------------------------------------------------

-----------------------------------------------------------------------------
(* Specifications *)

\* The level-role mappings a guild has configured with /leveltorole: none,
\* r1 from level 1 without grace, or r1 from level 1 with one day of grace.
LevelRoleConfigs ==
    { [r \in Roles |-> IF r = "r1"
                       THEN [present |-> TRUE, level_required |-> 1, drop_grace_days |-> d]
                       ELSE NoMapping] : d \in {0, 1} }

NoUsers == [g \in Guilds |-> [u \in Users |-> NoRow]]

InitCommon ==
    /\ now = StartTime
    /\ dropState = [g \in Guilds |-> [u \in Users |-> [r \in Roles |-> 0]]]
    /\ held = [g \in Guilds |-> [u \in Users |-> {}]]
    /\ tasks = [t \in TaskIds |-> Idle]
    /\ qualAt = [g \in Guilds |-> [u \in Users |-> [r \in Roles |-> 0]]]
    /\ timerAt = [g \in Guilds |-> [u \in Users |-> [r \in Roles |-> 0]]]
    /\ passDone = {}
    /\ msgCooldown = [g \in Guilds |-> [u \in Users |-> 0]]
    /\ reactionCooldown = [g \in Guilds |-> [u \in Users |-> 0]]
    /\ lastAward = [g \in Guilds |-> [u \in Users |-> [message |-> 0, reaction |-> 0]]]
    /\ event = NoEvent
    /\ ticksRun = 0
    /\ decayRuns = 0
    /\ decayLog = {}
    /\ obs = NoObs
    /\ levelLog = {}
    /\ cfgObs = NoCfgObs
    /\ allowedChannels = [g \in Guilds |-> {}]
    /\ steps = 0

Init ==
    /\ InitCommon
    /\ users = NoUsers
    /\ activity = [g \in Guilds |-> [u \in Users |-> <<>>]]
    /\ applied = [g \in Guilds |-> [u \in Users |-> 0]]
    /\ settings = [g \in Guilds |-> DefaultSettings]
    /\ voice = [g \in Guilds |-> [u \in Users |-> NotInVoice]]
    /\ levelRoles = [g \in Guilds |-> [r \in Roles |-> NoMapping]]
    /\ impl = "roles"
    /\ faults = {}

InitRoles ==
    /\ InitCommon
    /\ users = NoUsers
    /\ activity = [g \in Guilds |-> [u \in Users |-> <<>>]]
    /\ applied = [g \in Guilds |-> [u \in Users |-> 0]]
    /\ settings = [g \in Guilds |-> DefaultSettings]
    /\ voice = [g \in Guilds |-> [u \in Users |-> NotInVoice]]
    /\ levelRoles \in [Guilds -> LevelRoleConfigs]
    /\ impl = "roles"
    /\ faults = {}

\* Either build of the role synchronisation.
InitRolesAnyBuild ==
    /\ InitCommon
    /\ users = NoUsers
    /\ activity = [g \in Guilds |-> [u \in Users |-> <<>>]]
    /\ applied = [g \in Guilds |-> [u \in Users |-> 0]]
    /\ settings = [g \in Guilds |-> DefaultSettings]
    /\ voice = [g \in Guilds |-> [u \in Users |-> NotInVoice]]
    /\ levelRoles \in [Guilds -> LevelRoleConfigs]
    /\ impl \in {"roles", "inline"}
    /\ faults = {}

SyncLevels == 0..1
SyncUsers == {"u1"}

NextRoles ==
    \/ \E g \in Guilds, u \in SyncUsers, lvl \in SyncLevels : StartSync(g, u, lvl)
    \/ \E tid \in TaskIds, ok \in BOOLEAN : RoleReply(tid, ok)
    \/ \E d \in {1, DAY_MS} : Tick(d)
    \/ \E g \in Guilds, u \in SyncUsers, r \in Roles : ExternalRoleChange(g, u, r)

\* roles.js
SpecRoles == InitRoles /\ [][NextRoles]_vars

\* roles.js, or the synchronisation inside index.js
SpecRolesAnyBuild == InitRolesAnyBuild /\ [][NextRoles]_vars

NextLedger ==
    \/ \E g \in Guilds, u \in {"u1", "u2"} , d \in DeltaInputs : AddXpCall(g, u, d)
    \/ \E g \in Guilds, u \in {"u1", "u2"}, x \in XpInputs : SetXpCall(g, u, x)

SpecLedger == Init /\ [][NextLedger]_vars

NoLevelRoles == [g \in Guilds |-> [r \in Roles |-> NoMapping]]
NobodyInVoice == [g \in Guilds |-> [u \in Users |-> NotInVoice]]
InVoice(c, flags) == [channelId |-> c, flags |-> flags]

\* Message and reaction handlers, the cooldown maps and their sweep.
CooldownSettings ==
    { [DefaultSettings EXCEPT !.msg_xp = x, !.msg_cooldown_sec = c,
                              !.reaction_xp = rx, !.reaction_cooldown_sec = rc] :
          x \in {0, 5}, c \in {0, 20, 21601}, rx \in {0, 2}, rc \in {10, 21601} }

InitCooldown ==
    /\ InitCommon
    /\ users = NoUsers
    /\ activity = [g \in Guilds |-> [u \in Users |-> <<>>]]
    /\ applied = [g \in Guilds |-> [u \in Users |-> 0]]
    /\ settings \in [Guilds -> CooldownSettings]
    /\ voice = NobodyInVoice
    /\ levelRoles = NoLevelRoles
    /\ impl = "roles"
    /\ faults = {}

NextCooldown ==
    \/ \E g \in Guilds, u \in {"u1", "b1"} : MessageCreate(g, u)
    \/ \E g \in Guilds, u \in {"u1", "b1"} : MessageReactionAdd(g, u)
    \/ \E tid \in TaskIds, found \in BOOLEAN : FetchReply(tid, found)
    \/ SweepCooldowns
    \/ \E d \in {1000, 19000, 21580001} : Elapse(d)

SpecCooldown == InitCooldown /\ [][NextCooldown]_vars

\* Message, reaction and voice awards racing on the same users.
AwardSettings ==
    [DefaultSettings EXCEPT !.msg_xp = 500, !.msg_cooldown_sec = 0, !.reaction_xp = 300,
                            !.reaction_cooldown_sec = 0, !.voice_xp_per_min = 450]

TwoInVoice ==
    [g \in Guilds |-> [u \in Users |->
        IF u \in {"u1", "u2"} THEN InVoice("c1", {}) ELSE NotInVoice]]

InitAward ==
    /\ InitCommon
    /\ users = NoUsers
    /\ activity = [g \in Guilds |-> [u \in Users |-> <<>>]]
    /\ applied = [g \in Guilds |-> [u \in Users |-> 0]]
    /\ settings = [g \in Guilds |-> AwardSettings]
    /\ voice = TwoInVoice
    /\ levelRoles \in [Guilds -> LevelRoleConfigs]
    /\ impl = "roles"
    /\ faults = {}

NextAward ==
    \/ \E g \in Guilds, u \in {"u1"} : MessageCreate(g, u)
    \/ \E g \in Guilds, u \in {"u1"} : MessageReactionAdd(g, u)
    \/ \E g \in Guilds : VoiceTick(g)
    \/ \E tid \in TaskIds, found \in BOOLEAN : FetchReply(tid, found)
    \/ \E tid \in TaskIds, ok \in BOOLEAN : RoleReply(tid, ok)

SpecAward == InitAward /\ [][NextAward]_vars

\* One voice tick over every combination of voice states.
VoiceStateInputs ==
    { NotInVoice, InVoice("c1", {}), InVoice("c1", {"selfMute"}), InVoice("c1", {"serverMute"}),
      InVoice("c1", {"selfDeaf"}), InVoice("c1", {"serverDeaf"}), InVoice("c2", {}),
      InVoice(AfkChannelId, {}) }

VoiceSettings ==
    { [DefaultSettings EXCEPT !.voice_xp_per_min = x] : x \in {0, 450} }

InitVoice ==
    /\ InitCommon
    /\ users = NoUsers
    /\ activity = [g \in Guilds |-> [u \in Users |-> <<>>]]
    /\ applied = [g \in Guilds |-> [u \in Users |-> 0]]
    /\ settings \in [Guilds -> VoiceSettings]
    /\ voice \in [Guilds -> [Users -> VoiceStateInputs]]
    /\ \A g \in Guilds : voice[g]["b1"] \in {NotInVoice, InVoice("c1", {})}
    /\ levelRoles \in [Guilds -> LevelRoleConfigs]
    /\ impl = "roles"
    /\ faults = {}

NextVoice ==
    \/ \E g \in Guilds : VoiceTick(g)
    \/ \E tid \in TaskIds, ok \in BOOLEAN : RoleReply(tid, ok)

SpecVoice == InitVoice /\ [][NextVoice]_vars

\* The ledger calls and the decay pass.
DecaySettings ==
    { [DefaultSettings EXCEPT !.decay_enabled = e, !.decay_percent = p,
                              !.decay_min_messages = n, !.decay_window_days = 1,
                              !.msg_xp = 5, !.msg_cooldown_sec = 20] :
          <<e, p, n>> \in {<<0, 10, 2>>, <<1, 10, 2>>, <<1, 150, 2>>, <<1, -20, 2>>,
                           <<1, 10, 0>>} }

InitDecay ==
    /\ InitCommon
    /\ users = NoUsers
    /\ activity = [g \in Guilds |-> [u \in Users |-> <<>>]]
    /\ applied = [g \in Guilds |-> [u \in Users |-> 0]]
    /\ settings \in [Guilds -> {c \in DecaySettings : c.decay_enabled = 1 /\ c.decay_percent > 0}]
    /\ voice = NobodyInVoice
    /\ levelRoles = NoLevelRoles
    /\ impl = "roles"
    /\ faults = {}

\* The decay pass over a guild where u1 and u2 were set to 1000 XP, u1 has
\* since been awarded for messages and reactions, and u2 writes messages.
Row(kind) == [kind |-> kind, amount |-> 1, created_at |-> StartTime]
ActivityInputs ==
    { <<>>, <<Row("message"), Row("reaction")>>, <<Row("message"), Row("message")>> }

RECURSIVE AwardedFor(_, _)
AwardedFor(log, cfg) ==
    IF log = <<>> THEN 0
    ELSE (IF Head(log).kind = "message" THEN cfg.msg_xp ELSE cfg.reaction_xp)
         + AwardedFor(Tail(log), cfg)

DecayPassStart ==
    /\ InitCommon
    /\ settings \in [Guilds -> DecaySettings]
    /\ \E log \in ActivityInputs :
          /\ activity = [g \in Guilds |-> [u \in Users |-> IF u = "u1" THEN log ELSE <<>>]]
          /\ applied = [g \in Guilds |-> [u \in Users |->
                           IF u = "u1" THEN AwardedFor(log, settings[g]) ELSE 0]]
    /\ users = [g \in Guilds |-> [u \in Users |->
                    IF u \in {"u1", "u2"} THEN Fin(1000 + applied[g][u]) ELSE NoRow]]
    /\ voice = NobodyInVoice
    /\ levelRoles = NoLevelRoles
    /\ impl = "roles"

InitDecayPass == DecayPassStart /\ faults = {}

NextLedgerDecay ==
    \/ \E g \in Guilds, d \in DeltaInputs : AddXpCall(g, "u1", d)
    \/ \E g \in Guilds, x \in XpInputs : SetXpCall(g, "u1", x)
    \/ \E g \in Guilds : DecayStart(g)
    \/ \E tid \in TaskIds, found \in BOOLEAN : GuildReply(tid, found)
    \/ \E tid \in TaskIds, found \in BOOLEAN : FetchReply(tid, found)

SpecLedgerDecay == InitDecay /\ [][NextLedgerDecay]_vars

NextDecay ==
    \/ \E g \in Guilds : MessageCreate(g, "u2")
    \/ \E g \in Guilds : DecayStart(g)
    \/ \E tid \in TaskIds, found \in BOOLEAN : GuildReply(tid, found)
    \/ \E tid \in TaskIds, found \in BOOLEAN : FetchReply(tid, found)
    \/ Tick(DAY_MS)

SpecDecay == InitDecayPass /\ [][NextDecay]_vars

\* The decay pass when the storage refuses the write of one user's row.
InitDecayFaults == DecayPassStart /\ faults \in {{}, {"u1"}, {"u2"}}

NextDecayFaults ==
    \/ \E g \in Guilds : MessageCreate(g, "u2")
    \/ \E g \in Guilds : DecayStart(g)
    \/ \E tid \in TaskIds : GuildReply(tid, TRUE)
    \/ \E tid \in TaskIds, found \in BOOLEAN : FetchReply(tid, found)
    \/ Tick(DAY_MS)

SpecDecayFaults == InitDecayFaults /\ [][NextDecayFaults]_vars

\* The cron job of the decay scheduler and the passes it starts.
NextDecayCron ==
    \/ \E g \in Guilds : CronFire(g)
    \/ \E tid \in TaskIds, found \in BOOLEAN : GuildReply(tid, found)
    \/ \E tid \in TaskIds, found \in BOOLEAN : FetchReply(tid, found)

SpecDecayCron == InitDecayPass /\ [][NextDecayCron]_vars

\* Role synchronisation in a guild with two mappings while an administrator
\* removes mappings.
TwoLevelRoles ==
    { [r \in Roles |-> [present |-> TRUE, level_required |-> IF r = "r1" THEN 1 ELSE 2,
                        drop_grace_days |-> d]] : d \in {0, 1} }

InitRoleAdmin ==
    /\ InitCommon
    /\ users = NoUsers
    /\ activity = [g \in Guilds |-> [u \in Users |-> <<>>]]
    /\ applied = [g \in Guilds |-> [u \in Users |-> 0]]
    /\ settings = [g \in Guilds |-> DefaultSettings]
    /\ voice = [g \in Guilds |-> [u \in Users |-> NotInVoice]]
    /\ levelRoles \in [Guilds -> TwoLevelRoles]
    /\ impl = "roles"
    /\ faults = {}

NextRoleAdmin ==
    \/ \E g \in Guilds, u \in SyncUsers, lvl \in SyncLevels : StartSync(g, u, lvl)
    \/ \E tid \in TaskIds, ok \in BOOLEAN : RoleReply(tid, ok)
    \/ \E g \in Guilds, u \in SyncUsers, r \in Roles : ExternalRoleChange(g, u, r)
    \/ \E g \in Guilds, r \in Roles : deleteLevelRole(g, r)

SpecRoleAdmin == InitRoleAdmin /\ [][NextRoleAdmin]_vars

\* Callers of updateGuildSettings.
PatchKeys == {"msg_xp", "msg_cooldown_sec", "decay_min_messages", "nickname", "guild_id"}
PatchValues == {0, 7}

PatchInputs ==
    { [k \in K |-> IF k = "guild_id" THEN gid ELSE v] :
          K \in SUBSET PatchKeys, v \in PatchValues, gid \in {"g1", "g2"} }

NextSettings == \E g \in Guilds, patch \in PatchInputs : UpdateGuildSettingsCall(g, patch)

SpecSettings == Init /\ [][NextSettings]_vars

SetXpOptionInputs ==
    UNION { [K -> {-5, 3, MAX_XP_AWARD + 1}] : K \in SUBSET {"message", "reaction"} }

SetDecayOptionInputs ==
    UNION { [K -> {-10, 25, 150}] : K \in SUBSET {"messages", "percent"} }

NextCommands ==
    \/ \E g \in Guilds, opts \in SetXpOptionInputs : SetXpCommand(g, opts)
    \/ \E g \in Guilds, opts \in SetDecayOptionInputs : SetDecayCommand(g, opts)

SpecCommands == Init /\ [][NextCommands]_vars

NextLevel == \E x \in LevelXpInputs, f \in FactorInputs : LevelFromXpCall(x, f)

SpecLevel == Init /\ [][NextLevel]_vars

\* The xp a row can hold when the bot starts on a database an earlier build
\* wrote: that build stored xp + delta and Math.max(0, Math.floor(xp))
\* without an upper limit.
StoredRows == {NoRow, Fin(0), Fin(500), Frac(500), Fin(MAX_SAFE_XP + 1), PosInf}

LimitInputs == {1, 2, 10}

InitLeaderboard ==
    /\ InitCommon
    /\ users \in [Guilds -> [Users -> StoredRows]]
    /\ activity = [g \in Guilds |-> [u \in Users |-> <<>>]]
    /\ applied = [g \in Guilds |-> [u \in Users |-> 0]]
    /\ settings = [g \in Guilds |-> DefaultSettings]
    /\ voice = [g \in Guilds |-> [u \in Users |-> NotInVoice]]
    /\ levelRoles = [g \in Guilds |-> [r \in Roles |-> NoMapping]]
    /\ impl = "roles"
    /\ faults = {}

NextLeaderboard ==
    \/ \E g \in Guilds, limit \in LimitInputs : TopUsersCall(g, limit)
    \/ \E g \in Guilds, u \in {"u1", "u2"} : AddXpCall(g, u, Fin(400))

SpecLeaderboard == InitLeaderboard /\ [][NextLeaderboard]_vars

\* Rows of any content, the legacy values getXp repairs included.
InitGetXp ==
    /\ InitCommon
    /\ users \in [Guilds -> { [u \in Users |-> IF u = "u1" THEN a ELSE IF u = "u2" THEN b
                                               ELSE NoRow] :
                                  a, b \in XpInputs \cup {NoRow} }]
    /\ activity = [g \in Guilds |-> [u \in Users |-> <<>>]]
    /\ applied = [g \in Guilds |-> [u \in Users |-> 0]]
    /\ settings = [g \in Guilds |-> DefaultSettings]
    /\ voice = [g \in Guilds |-> [u \in Users |-> NotInVoice]]
    /\ levelRoles = [g \in Guilds |-> [r \in Roles |-> NoMapping]]
    /\ impl = "roles"
    /\ faults = {}

NextGetXp == \E g \in Guilds, u \in {"u1", "u2", "u3"} : GetXpCall(g, u)

SpecGetXp == InitGetXp /\ [][NextGetXp]_vars

\* The award handlers and the voice tick with a storage that may refuse to
\* append to activity_log.
InitAwardFaults ==
    /\ InitCommon
    /\ users = NoUsers
    /\ activity = [g \in Guilds |-> [u \in Users |-> <<>>]]
    /\ applied = [g \in Guilds |-> [u \in Users |-> 0]]
    /\ settings = [g \in Guilds |-> AwardSettings]
    /\ voice = TwoInVoice
    /\ levelRoles \in [Guilds -> LevelRoleConfigs]
    /\ impl = "roles"
    /\ faults \in {{}, {LogFault}}

SpecAwardFaults == InitAwardFaults /\ [][NextAward]_vars

TextChannels == {"t1", "t2", "t3"}

InteractionInputs ==
    [commandName : {"xp", "setcommandchannel"}, channelId : TextChannels, admin : BOOLEAN,
     sub : {"add", "remove", "list"}, target : TextChannels]

NextCommandChannels == \E g \in Guilds, i \in InteractionInputs : InteractionCreate(g, i)

SpecCommandChannels == Init /\ [][NextCommandChannels]_vars

\* A new database: no guild has a settings row.
InitNoSettings ==
    /\ InitCommon
    /\ users = NoUsers
    /\ activity = [g \in Guilds |-> [u \in Users |-> <<>>]]
    /\ applied = [g \in Guilds |-> [u \in Users |-> 0]]
    /\ settings = [g \in Guilds |-> NoSettingsRow]
    /\ voice = [g \in Guilds |-> [u \in Users |-> NotInVoice]]
    /\ levelRoles = [g \in Guilds |-> [r \in Roles |-> NoMapping]]
    /\ impl = "roles"
    /\ faults = {}

NextGuildSettings ==
    \/ \E g \in Guilds : GetGuildSettingsCall(g)
    \/ \E g \in Guilds, patch \in PatchInputs : UpdateGuildSettingsCall(g, patch)

SpecGuildSettings == InitNoSettings /\ [][NextGuildSettings]_vars

\* Awards and a decay pass on a member near a level boundary, with platform
\* calls that always succeed and nobody changing roles by hand.
BoundarySettings ==
    [DefaultSettings EXCEPT !.msg_xp = 10, !.msg_cooldown_sec = 0, !.decay_window_days = 1,
                            !.decay_min_messages = 3, !.decay_percent = 10]

InitAwardDecay ==
    /\ InitCommon
    /\ users = [g \in Guilds |-> [u \in Users |-> IF u = "u1" THEN Fin(95) ELSE NoRow]]
    /\ activity = [g \in Guilds |-> [u \in Users |-> <<>>]]
    /\ applied = [g \in Guilds |-> [u \in Users |-> 0]]
    /\ settings = [g \in Guilds |-> BoundarySettings]
    /\ voice = NobodyInVoice
    /\ levelRoles \in [Guilds -> LevelRoleConfigs]
    /\ impl = "roles"
    /\ faults = {}

NextAwardDecay ==
    \/ \E g \in Guilds : MessageCreate(g, "u1")
    \/ \E g \in Guilds : DecayStart(g)
    \/ \E tid \in TaskIds : GuildReply(tid, TRUE)
    \/ \E tid \in TaskIds : FetchReply(tid, TRUE)
    \/ \E tid \in TaskIds : RoleReply(tid, TRUE)
    \/ Tick(DAY_MS)

SpecAwardDecay == InitAwardDecay /\ [][NextAwardDecay]_vars

\* The daily decay pass on a member who has 95 XP and one message in the log,
\* receives r1 (level 1, two days of grace) from the next message and then
\* stays silent; 95 % of decay.  Every
\* platform call succeeds, the cron job and the replies are not postponed
\* for ever.
GraceSettings ==
    [DefaultSettings EXCEPT !.msg_xp = 10, !.msg_cooldown_sec = 0, !.decay_window_days = 1,
                            !.decay_min_messages = 3, !.decay_percent = 95]

InitGrace ==
    /\ InitCommon
    /\ users = [g \in Guilds |-> [u \in Users |-> IF u = "u1" THEN Fin(95) ELSE NoRow]]
    /\ activity = [g \in Guilds |-> [u \in Users |->
                      IF u = "u1" THEN logActivity(<<>>, "message", 1) ELSE <<>>]]
    /\ applied = [g \in Guilds |-> [u \in Users |-> 0]]
    /\ settings = [g \in Guilds |-> GraceSettings]
    /\ voice = NobodyInVoice
    /\ levelRoles = [g \in Guilds |-> [r \in Roles |->
                        IF r = "r1"
                        THEN [present |-> TRUE, level_required |-> 1, drop_grace_days |-> 2]
                        ELSE NoMapping]]
    /\ impl = "roles"
    /\ faults = {}

NextGrace ==
    \/ \E g \in Guilds : MessageCreate(g, "u1")
    \/ \E g \in Guilds : CronDay(g)
    \/ \E tid \in TaskIds : GuildReply(tid, TRUE)
    \/ \E tid \in TaskIds : FetchReply(tid, TRUE)
    \/ \E tid \in TaskIds : RoleReply(tid, TRUE)

SpecGrace ==
    /\ InitGrace
    /\ [][NextGrace]_vars
    /\ WF_vars(\E g \in Guilds : CronDay(g))
    /\ WF_vars(\E tid \in TaskIds : GuildReply(tid, TRUE))
    /\ WF_vars(\E tid \in TaskIds : FetchReply(tid, TRUE))
    /\ WF_vars(\E tid \in TaskIds : RoleReply(tid, TRUE))

\* The handlers of the index.js that applies the decay in the message handler.
HandlerDecaySettings ==
    { [DefaultSettings EXCEPT !.msg_cooldown_sec = c, !.reaction_cooldown_sec = 0,
                              !.decay_enabled = e, !.decay_min_messages = m] :
          c \in {0, 20}, e \in {0, 1}, m \in {1, 20} }

InitHandlerDecay ==
    /\ InitCommon
    /\ users \in [Guilds -> [Users -> {NoRow, Fin(500)}]]
    /\ \A g \in Guilds, u \in Users \ {"u1"} : users[g][u] = NoRow
    /\ activity = [g \in Guilds |-> [u \in Users |-> <<>>]]
    /\ applied = [g \in Guilds |-> [u \in Users |-> 0]]
    /\ settings \in [Guilds -> HandlerDecaySettings]
    /\ voice = NobodyInVoice
    /\ levelRoles \in [Guilds -> LevelRoleConfigs]
    /\ impl = "inline"
    /\ faults = {}

NextHandlerDecay ==
    \/ \E g \in Guilds, u \in {"u1", "b1"} : MessageCreate_Decay(g, u)
    \/ \E g \in Guilds, u \in {"u1"} : MessageReactionAdd(g, u)
    \/ \E tid \in TaskIds, found \in BOOLEAN : FetchReply(tid, found)
    \/ \E tid \in TaskIds, ok \in BOOLEAN : RoleReply(tid, ok)
    \/ Tick(1)

SpecHandlerDecay == InitHandlerDecay /\ [][NextHandlerDecay]_vars

\* Message and reaction awards in a guild with two mappings, the platform
\* refusing or accepting each role request.
InitAwardRoles ==
    /\ InitCommon
    /\ users = NoUsers
    /\ activity = [g \in Guilds |-> [u \in Users |-> <<>>]]
    /\ applied = [g \in Guilds |-> [u \in Users |-> 0]]
    /\ settings = [g \in Guilds |-> AwardSettings]
    /\ voice = NobodyInVoice
    /\ levelRoles \in [Guilds -> TwoLevelRoles]
    /\ impl = "roles"
    /\ faults = {}

NextAwardRoles ==
    \/ \E g \in Guilds, u \in {"u1"} : MessageCreate(g, u)
    \/ \E g \in Guilds, u \in {"u1"} : MessageReactionAdd(g, u)
    \/ \E tid \in TaskIds, found \in BOOLEAN : FetchReply(tid, found)
    \/ \E tid \in TaskIds, ok \in BOOLEAN : RoleReply(tid, ok)

SpecAwardRoles == InitAwardRoles /\ [][NextAwardRoles]_vars

\* Voice ticks while the storage fails for one member, for the activity log
\* or for the settings of a guild that comes first in the cache.
ThreeInVoice ==
    [g \in Guilds |-> [u \in Users |->
        IF u \in {"u1", "u2", "u3"} THEN InVoice("c1", {}) ELSE NotInVoice]]

InitVoiceFaults ==
    /\ InitCommon
    /\ users = NoUsers
    /\ activity = [g \in Guilds |-> [u \in Users |-> <<>>]]
    /\ applied = [g \in Guilds |-> [u \in Users |-> 0]]
    /\ settings = [g \in Guilds |-> AwardSettings]
    /\ voice = ThreeInVoice
    /\ levelRoles \in [Guilds -> LevelRoleConfigs]
    /\ impl = "roles"
    /\ faults \in {{}, {"u1"}, {"u2"}, {LogFault}, {SettingsFault}}

NextVoiceFaults ==
    \/ \E g \in Guilds : VoiceTickBehind(g)
    \/ \E tid \in TaskIds, ok \in BOOLEAN : RoleReply(tid, ok)

SpecVoiceFaults == InitVoiceFaults /\ [][NextVoiceFaults]_vars

\* Ledger calls and awards on a users table with the rows of two guilds,
\* while the storage fails for u1 or for the activity log.
LedgerGuilds == {"g1", "g2"}

InitKeys ==
    /\ InitCommon
    /\ \E x \in {NoRow, Frac(500)} :
          users = [g \in LedgerGuilds |-> [u \in Users |->
                      IF u = "u1" THEN Fin(500)
                      ELSE IF u = "u2" THEN (IF g = "g1" THEN x ELSE Frac(700))
                      ELSE NoRow]]
    /\ activity = [g \in LedgerGuilds |-> [u \in Users |-> <<>>]]
    /\ applied = [g \in Guilds |-> [u \in Users |-> 0]]
    /\ settings = [g \in Guilds |-> AwardSettings]
    /\ voice = NobodyInVoice
    /\ levelRoles \in [Guilds -> LevelRoleConfigs]
    /\ impl = "roles"
    /\ faults \in {{}, {"u1"}, {LogFault}}

NextKeys ==
    \/ \E g \in LedgerGuilds, u \in {"u2"} : AddXpCall(g, u, Fin(400))
    \/ \E g \in LedgerGuilds, u \in {"u2"} : SetXpCall(g, u, Fin(0))
    \/ \E g \in LedgerGuilds, u \in {"u2"} : GetXpCall(g, u)
    \/ \E g \in Guilds, u \in {"u1"} : MessageCreate(g, u)
    \/ \E tid \in TaskIds, found \in BOOLEAN : FetchReply(tid, found)
    \/ \E tid \in TaskIds, ok \in BOOLEAN : RoleReply(tid, ok)

SpecKeys == InitKeys /\ [][NextKeys]_vars

\* Settings written by callers of updateGuildSettings and by /setxp and
\* /setdecay.
RangePatchInputs ==
    UNION { [K -> {-7, 0}] :
                K \in {{"msg_xp"}, {"msg_cooldown_sec"}, {"decay_window_days"},
                       {"level_xp_factor"}} }

NextSettingsRange ==
    \/ \E g \in Guilds, patch \in RangePatchInputs : UpdateGuildSettingsCall(g, patch)
    \/ \E g \in Guilds, opts \in SetXpOptionInputs : SetXpCommand(g, opts)
    \/ \E g \in Guilds, opts \in SetDecayOptionInputs : SetDecayCommand(g, opts)

SpecSettingsRange == Init /\ [][NextSettingsRange]_vars

-----------------------------------------------------------------------------
(* Claims *)

\* C10: the level curve is monotonic: for a fixed factor and xp1 < xp2,
\* levelFromXp(xp1, factor) <= levelFromXp(xp2, factor).
C10_LevelMonotonic ==
    \A a \in levelLog, b \in levelLog :
        (a.factor = b.factor /\ a.xp < b.xp) => a.level <= b.level

\* Two calls with the same factor where the larger xp has reached a higher level.
C10_Witness ==
    \E a \in levelLog, b \in levelLog :
        /\ a.factor = b.factor /\ a.factor = 100
        /\ a.xp = 99 /\ b.xp = 100
        /\ a.level = 0 /\ b.level = 1


\* A step in which task tid sends roles.remove (and suspends on it).
RevokeRequestedBy(tid) ==
    /\ tasks'[tid].pc = "remove"
    /\ \/ tasks[tid].pc # "remove"
       \/ tasks[tid].i # tasks'[tid].i
       \/ tasks[tid].u # tasks'[tid].u

\* graceMs of a mapping row
GraceMsOf(mp) == Max(0, mp.drop_grace_days) * DAY_MS

\* Every running drop timer was started no earlier than the last pass that
\* found the member qualified: requalification clears the timer.
TimerNotOlderThanQualification ==
    \A g \in Guilds, u \in Users, r \in Roles :
        dropState[g][u][r] # 0 => dropState[g][u][r] >= qualAt[g][u][r]

\* A revocation is sent only more than the grace period after the last pass
\* that found the member qualified for the role.
RevokeOnlyLongAfterQualification ==
    \A tid \in TaskIds :
        RevokeRequestedBy(tid) =>
            LET t == tasks'[tid]
                mp == t.maps[t.i]
            IN qualAt[t.g][t.u][mp.role_id] # 0 =>
                   now - qualAt[t.g][t.u][mp.role_id] > GraceMsOf(mp)

\* C3: grace hysteresis (roles.js): a member who drops below requiredLevel and
\* requalifies before dropGraceDays have elapsed is not sent a revocation;
\* belowSince is cleared at requalification, so that a later drop starts a
\* fresh grace period.
C3_GraceHysteresis ==
    /\ []TimerNotOlderThanQualification
    /\ [][RevokeOnlyLongAfterQualification]_vars

\* The member dropped (timer started), requalified within the grace period
\* and keeps the role with the timer cleared.
C3_Witness ==
    \E g \in Guilds, u \in Users :
        /\ levelRoles[g]["r1"].drop_grace_days = 1
        /\ "r1" \in held[g][u]
        /\ timerAt[g][u]["r1"] # 0
        /\ qualAt[g][u]["r1"] > timerAt[g][u]["r1"]
        /\ qualAt[g][u]["r1"] - timerAt[g][u]["r1"] < DAY_MS
        /\ dropState[g][u]["r1"] = 0
        /\ \A tid \in TaskIds : tasks[tid].kind = "idle"

\* C4: after every role-sync pass for a member, for every mapping of the guild,
\* belowSince is non-null only if the member holds the role.
C4_TimerOnlyWhileHeld ==
    \A gu \in passDone :
        \A r \in Roles :
            (levelRoles[gu[1]][r].present /\ dropState[gu[1]][gu[2]][r] # 0)
                => r \in held[gu[1]][gu[2]]

\* C5: a revocation is requested only when the member is below requiredLevel,
\* holds the role, belowSince is set and now - belowSince > dropGraceDays * 86400000.
C5_RevokeOnlyAfterGrace ==
    [][\A tid \in TaskIds :
          RevokeRequestedBy(tid) =>
              LET t == tasks'[tid]
                  mp == t.maps[t.i]
                  r == mp.role_id
              IN /\ t.level < mp.level_required
                 /\ r \in held[t.g][t.u]
                 /\ dropState[t.g][t.u][r] # 0
                 /\ now - dropState[t.g][t.u][r] > mp.drop_grace_days * DAY_MS]_vars

\* Every stored XP is an integer in [0, MAX_SAFE_XP].
ValidXp(row) == row = NoRow \/ (row.t = "fin" /\ ~row.f /\ row.i >= 0 /\ row.i <= MAX_SAFE_XP)

\* C1: after any sequence of addXp, setXp and decay-pass operations every
\* stored xp is an integer in [0, MAX_SAFE_INT], never negative, never non-finite.
C1_StoredXpInRange ==
    \A g \in Guilds, u \in Users : ValidXp(users[g][u])

\* A decay pass has written and a negative delta has emptied the balance.
C1_Witness ==
    /\ \E e \in decayLog : e.wrote
    /\ obs.op = "addXp" /\ obs.arg.t = "fin" /\ obs.arg.i < 0
    /\ obs.pre # NoRow /\ obs.pre.i > 0
    /\ users[obs.g][obs.u] = Fin(0)

\* C2: concurrent award events on the same (guild, user) never lose an update:
\* whatever the interleaving of the handlers, the stored XP is the starting XP
\* (none) plus the sum of the deltas applied, clamped to [0, MAX_SAFE_INT].
C2_NoLostUpdate ==
    \A g \in Guilds, u \in Users :
        users[g][u] = IF applied[g][u] = 0 THEN NoRow
                      ELSE Fin(Min(MAX_SAFE_XP, applied[g][u]))

\* A message handler and a reaction handler of the same user are suspended at
\* the same time, and the balance holds both awards.
C2_Witness ==
    /\ tasks[1].kind = "message" /\ tasks[2].kind = "reaction"
    /\ tasks[1].pc = "fetch" /\ tasks[2].pc = "fetch"
    /\ tasks[1].u = tasks[2].u /\ tasks[1].g = tasks[2].g
    /\ applied[tasks[1].g][tasks[1].u] = 500 + 300
    /\ users[tasks[1].g][tasks[1].u] = Fin(500 + 300)

\* C6: a message event of a non-bot user is awarded if and only if msgXp > 0 and
\* the time since the user's last awarded message in the guild is at least
\* msgCooldownSeconds (the first message is always eligible).
C6_MessageAwardRule ==
    event.kind = "message" =>
        (event.awarded <=>
            /\ event.u \notin Bots
            /\ event.gain > 0
            /\ (event.prev = 0 \/ event.at - event.prev >= event.cdSec * 1000))

\* Two messages one second apart with a cooldown of 20 seconds: the second one
\* is not awarded.
C6_Witness ==
    /\ event.kind = "message" /\ ~event.awarded
    /\ event.u \notin Bots /\ event.gain > 0 /\ event.cdSec = 20
    /\ event.prev # 0 /\ event.at - event.prev = 1000

\* The voice states that count according to the rule: a human, in a channel
\* other than the AFK channel, neither muted nor deafened.
VoiceEligible(g, u) ==
    /\ u \notin Bots
    /\ voice[g][u].channelId \notin {"", AfkChannelId}
    /\ voice[g][u].flags = {}

VoiceAwarded(g, u) ==
    /\ settings[g].voice_xp_per_min > 0
    /\ VoiceEligible(g, u)
    /\ Cardinality({v \in Users : VoiceEligible(g, v)
                                  /\ voice[g][v].channelId = voice[g][u].channelId}) >= 2

\* C7: in a voice tick a member is awarded if and only if eligible and in a
\* channel with at least two eligible members; each awarded member gets
\* voiceXpPerMinute once and one voice_minute record of amount 1 per tick;
\* the others get nothing.
C7_VoiceTickAwards ==
    (\A tid \in TaskIds : tasks[tid].kind = "idle") =>
        \A g \in Guilds, u \in Users :
            IF ticksRun > 0 /\ VoiceAwarded(g, u)
            THEN /\ users[g][u] =
                        Fin(Min(MAX_SAFE_XP, ticksRun * settings[g].voice_xp_per_min))
                 /\ Len(activity[g][u]) = ticksRun
                 /\ \A k \in 1..Len(activity[g][u]) :
                        activity[g][u][k].kind = "voice_minute" /\ activity[g][u][k].amount = 1
            ELSE users[g][u] = NoRow /\ activity[g][u] = <<>>

\* A tick is over: of three members in a channel the muted one got nothing,
\* the other two got their award.
C7_Witness ==
    /\ \A tid \in TaskIds : tasks[tid].kind = "idle"
    /\ ticksRun = 1
    /\ voice["g1"]["u1"] = InVoice("c1", {})
    /\ voice["g1"]["u2"] = InVoice("c1", {})
    /\ voice["g1"]["u3"] = InVoice("c1", {"serverMute"})
    /\ users["g1"]["u1"] = Fin(450) /\ users["g1"]["u2"] = Fin(450)
    /\ users["g1"]["u3"] = NoRow

\* The message rows of a log that lie in the window ending at time t.
MessagesInWindow(log, windowDays, t) ==
    Cardinality({k \in 1..Len(log) : /\ log[k].kind = "message"
                                     /\ log[k].created_at >= t - windowDays * DAY_MS})

\* C8: a decay pass changes nothing if decayEnabled is false; otherwise a user
\* with messagesInWindow >= decayMinMessages is left alone and any other user's
\* XP becomes floor(xp * (1 - p)), p the stored decayPercent clamped to
\* [0, 0.95], xp the user's XP as the pass read it; only message activity
\* counts toward messagesInWindow.
C8_DecayPass ==
    /\ \A g \in Guilds :
           settings[g].decay_enabled = 0 =>
               /\ decayLog = {}
               /\ \A u \in {"u1", "u2"} : users[g][u] = Fin(1000 + applied[g][u])
    /\ \A e \in decayLog :
           LET p == IF e.cfg.decay_percent < 0 THEN 0
                    ELSE IF e.cfg.decay_percent > 95 THEN 95 ELSE e.cfg.decay_percent
               expected == (e.xp * (100 - p)) \div 100
           IN /\ e.msgCount = MessagesInWindow(e.log, e.cfg.decay_window_days, e.at)
              /\ IF e.msgCount >= e.cfg.decay_min_messages \/ expected = e.xp
                 THEN ~e.wrote /\ e.after = e.stored
                 ELSE e.wrote /\ e.after = Fin(expected)

\* 1000 XP, 10 percent, fewer messages than the minimum: the pass wrote 900;
\* and a user with one message and one reaction, which does not count, was
\* decayed as well.
C8_Witness ==
    /\ \E e \in decayLog :
           /\ e.xp = 1000 /\ e.cfg.decay_percent = 10
           /\ e.msgCount < e.cfg.decay_min_messages
           /\ e.after = Fin(900)
    /\ \E e \in decayLog :
           /\ e.msgCount = 1 /\ e.cfg.decay_min_messages = 2
           /\ \E k \in 1..Len(e.log) : e.log[k].kind = "reaction"
           /\ e.xp = 1007 /\ e.after = Fin(906)

\* C9: addXp returns and stores min(MAX_SAFE_INT, max(0, xp + delta)), xp being
\* the previous balance (0 for a user without a record); the value returned is
\* the value stored.
C9_AddXpClamps ==
    obs.op = "addXp" =>
        /\ obs.ret = users[obs.g][obs.u]
        /\ (obs.arg.t = "fin" /\ ~obs.arg.f) =>
               LET xp == IF obs.pre = NoRow THEN 0 ELSE obs.pre.i
               IN obs.ret = Fin(Min(MAX_SAFE_XP, Max(0, xp + obs.arg.i)))

\* A positive delta was cut to the remaining headroom.
C9_Witness ==
    /\ obs.op = "addXp" /\ obs.pre = Fin(1000) /\ obs.arg = Fin(400)
    /\ obs.ret = Fin(MAX_SAFE_XP)
    /\ users[obs.g][obs.u] = Fin(MAX_SAFE_XP)

\* C11: for every xp and factor (factor < 1 and xp < 0 included) levelFromXp is
\* floor(sqrt(max(0, xp) / max(1, factor))): the result is the unique L >= 0
\* with L^2 * f <= max(0, xp) < (L + 1)^2 * f for f = max(1, factor).
C11_LevelFormula ==
    \A a \in levelLog :
        LET f == Max(1, a.factor)
            x == Max(0, a.xp)
        IN /\ a.level >= 0
           /\ a.level * a.level * f <= x
           /\ x < (a.level + 1) * (a.level + 1) * f

\* The examples at factor 100: xp 45 is still level 0 and xp 100 is level 1.
C11_Witness ==
    \E a \in levelLog, b \in levelLog :
        /\ a.factor = 100 /\ b.factor = 100
        /\ a.xp = 45 /\ a.level = 0
        /\ b.xp = 100 /\ b.level = 1

\* Task tid resumes from its platform call in this step and the request has
\* failed: the membership after the step is not what the request asked for.
FailedReplyTo(tid) ==
    /\ tasks[tid].pc \in {"add", "remove"}
    /\ tasks'[tid] # tasks[tid]
    /\ LET t == tasks[tid]
           r == t.maps[t.i].role_id
       IN IF t.pc = "add" THEN r \notin held'[t.g][t.u] ELSE r \in held'[t.g][t.u]

\* C12: when a grant or revoke request fails, the pass leaves belowSince of
\* that (user, role) unchanged, so that the next pass makes the same request
\* again and a failed revocation does not restart the grace period.
C12_FailureKeepsTimer ==
    [][\A tid \in TaskIds :
          FailedReplyTo(tid) =>
              LET t == tasks[tid]
                  r == t.maps[t.i].role_id
              IN dropState'[t.g][t.u][r] = dropState[t.g][t.u][r]]_vars

\* C13: a failure while processing one user of a decay pass does not abort the
\* pass: once the pass over the guild is over, every other user of the guild
\* with a score row has been processed by it.
C13_DecayPassContinues ==
    \A g \in Guilds :
        (/\ decayRuns > 0
         /\ settings[g].decay_enabled = 1
         /\ \A tid \in TaskIds : tasks[tid].kind # "decay")
        => \A u \in Users :
               (users[g][u] # NoRow /\ u \notin faults)
                   => \E e \in decayLog : e.u = u

\* C14: a voice tick never starts while a previous voice tick is still
\* running: at most one runVoiceTick invocation is in flight at any time.
C14_OneVoiceTickInFlight ==
    Cardinality({tid \in TaskIds : tasks[tid].kind = "voice"}) <= 1

\* C15: a decay pass never starts while a previous decay pass is still
\* running: at most one scheduled decay pass is in flight at any time, so that
\* no user is decayed twice for the same scheduled pass.
C15_OneDecayPassInFlight ==
    Cardinality({tid \in TaskIds : tasks[tid].kind = "decay"}) <= 1

\* A sync pass finds member u of guild g holding role r below its required
\* level for the first time in this step: no drop timer was stored for the
\* role and the pass stores one.
FirstSeenBelow(g, u, r) ==
    /\ levelRoles[g][r].present
    /\ r \in held[g][u]
    /\ dropState[g][u][r] = 0
    /\ dropState'[g][u][r] # 0

\* C16: for a mapping with dropGraceDays = 0, the sync pass that first observes
\* a role-holding member below requiredLevel requests the revocation of the
\* role in that same pass.
C16_ImmediateRevocation ==
    [][\A g \in Guilds, u \in Users, r \in Roles :
          (FirstSeenBelow(g, u, r) /\ levelRoles[g][r].drop_grace_days = 0)
              => \E tid \in TaskIds :
                     /\ RevokeRequestedBy(tid)
                     /\ tasks'[tid].g = g /\ tasks'[tid].u = u
                     /\ tasks'[tid].maps[tasks'[tid].i].role_id = r]_vars

\* The first request a sync pass for (g, u) at level lvl makes when it runs on
\* drop state ds and membership h: <<"add" | "remove", role>>, or <<"none", "">>.
FirstRequest(g, u, lvl, ds, h) ==
    LET m == SyncLoop([Machine EXCEPT !.task = SyncTask(g, u, lvl), !.ds = ds, !.held = h])
    IN IF m.task.pc \in {"add", "remove"}
       THEN <<m.task.pc, m.task.maps[m.task.i].role_id>>
       ELSE <<"none", "">>

\* A bare sync pass resumes from its request in this step and the member
\* holds the role as when the pass ran (the request had no effect): run again
\* now, it makes the same request.
RequestRepeats ==
    \A tid \in TaskIds :
        (tasks[tid].kind = "sync" /\ FailedReplyTo(tid))
        => LET t == tasks[tid]
           IN FirstRequest(t.g, t.u, t.level, dropState', held')
                  = <<t.pc, t.maps[t.i].role_id>>

\* A bare sync pass for (g, u) runs to its end in this step without a request:
\* run again now, it makes no request either.
NoRequestStays ==
    \A g \in Guilds, u \in SyncUsers, lvl \in SyncLevels :
        (/\ \A tid \in TaskIds : tasks[tid].kind = "idle"
         /\ passDone' = {<<g, u>>}
         /\ tasks' = tasks
         /\ FirstRequest(g, u, lvl, dropState, held) = <<"none", "">>
         /\ dropState' = SyncLoop([Machine EXCEPT !.task = SyncTask(g, u, lvl)]).ds)
        => FirstRequest(g, u, lvl, dropState', held') = <<"none", "">>

\* C17: running the role sync again for the same member with the same level,
\* the same held roles, the same mappings and the same clock value yields the
\* same grant and revoke requests; a state in which no request is made stays
\* that way (no flapping).
C17_SyncIdempotent ==
    [][RequestRepeats /\ NoRequestStays]_vars

\* C18: no drop timer is ever orphaned: in every reachable state, also while a
\* sync pass is suspended on a platform call and the mapping is deleted, no
\* role_drop_state row with non-null belowSince exists for a (guild, role)
\* that has no mapping.
C18_NoOrphanTimer ==
    \A g \in Guilds, u \in Users, r \in Roles :
        dropState[g][u][r] # 0 => levelRoles[g][r].present

\* C19: updateGuildSettings(guild, patch) changes exactly the recognized
\* fields present in the patch: unrecognized keys are ignored, every setting
\* not named in the patch keeps its value, a patch without a recognized key
\* leaves all settings unchanged; the returned settings are the stored ones.
C19_UpdateChangesPatchedFields ==
    cfgObs.op = "update" =>
        LET g == cfgObs.g
            named == (DOMAIN cfgObs.patch) \cap SettingsFields
        IN /\ \A f \in SettingsFields \ named : settings[g][f] = cfgObs.pre[f]
           /\ \A f \in named :
                  settings[g][f] = IF f \in XpFields THEN clampAward(cfgObs.patch[f])
                                   ELSE cfgObs.patch[f]
           /\ cfgObs.ret = settings[g]

\* The command recorded in cfgObs carried an out-of-range value: an XP rate
\* that is negative or above MAX_XP_AWARD, or a decay percent outside [0,95].
CarriedOutOfRange ==
    \/ /\ cfgObs.op = "setxp"
       /\ \E k \in DOMAIN cfgObs.patch \cap {"message", "reaction", "voice"} :
              cfgObs.patch[k] < 0 \/ cfgObs.patch[k] > MAX_XP_AWARD
    \/ /\ cfgObs.op = "setdecay"
       /\ "percent" \in DOMAIN cfgObs.patch
       /\ (cfgObs.patch["percent"] < 0 \/ cfgObs.patch["percent"] > 95)

UserIndex(u) == CHOOSE k \in 1..Len(UserOrder) : UserOrder[k] = u

C22_GetXpRepairs ==
    obs.op = "getXp" =>
        LET pre == obs.pre
            ret == obs.ret
            row == users[obs.g][obs.u]
        IN /\ ValidXp(ret) /\ ret # NoRow
           /\ pre = NoRow => (ret = Fin(0) /\ row = NoRow)
           /\ (pre # NoRow /\ ValidXp(pre)) => (ret = pre /\ row = pre)
           /\ (pre # NoRow /\ ~ValidXp(pre)) => row = ret
           /\ (pre.t = "fin" /\ pre.i < 0) => ret = Fin(0)
           /\ (pre.t = "fin" /\ pre.i > MAX_SAFE_XP) => ret = Fin(MAX_SAFE_XP)
           /\ (pre.t = "fin" /\ pre.i >= 0 /\ pre.i <= MAX_SAFE_XP) => ret = Fin(pre.i)

\* getXp has repaired a non-finite row while the other user's corrupt row
\* is still as it was.
C22_Witness ==
    /\ obs.op = "getXp"
    /\ obs.u = "u1"
    /\ obs.pre = NaN
    /\ users[obs.g]["u1"] = obs.ret
    /\ users[obs.g]["u2"] = Fin(-5)

\* A message or reaction handler has applied an award to the user in this step.
HandlerAwarded(g, u) ==
    /\ applied'[g][u] # applied[g][u]
    /\ ticksRun' = ticksRun
    /\ \A tid \in TaskIds : tasks[tid].kind # "voice"

\* C23: when a message or reaction handler has applied its award with addXp,
\* the XP stays applied and the rest of the flow runs, whether or not
\* appending the activity record failed: the handler goes on to fetch the
\* member, from where it computes the level and synchronises the roles.
C23_LogFailureKeepsFlow ==
    [][\A g \in Guilds, u \in Users :
          HandlerAwarded(g, u) =>
              /\ users'[g][u] # NoRow
              /\ \E tid \in TaskIds :
                     /\ tasks[tid].kind = "idle"
                     /\ tasks'[tid].kind \in {"message", "reaction"}
                     /\ tasks'[tid].u = u
                     /\ tasks'[tid].pc = "fetch"]_vars

\* The award rule of one kind of event, with the rate, the cooldown and the
\* time of the last awarded event of that kind.
EventRule ==
    event.awarded <=>
        /\ event.u \notin Bots
        /\ event.gain > 0
        /\ (event.prev = 0 \/ event.at - event.prev >= event.cdSec * 1000)

\* C24: a reaction of a non-bot user is awarded if and only if reactionXp > 0
\* and at least reactionCooldownSeconds have passed since the user's last
\* awarded reaction in the guild, whatever messages the user sent; a message
\* is awarded by the same rule on msgXp, msgCooldownSeconds and the last
\* awarded message, whatever reactions the user added.
C24_IndependentCooldowns ==
    event.kind \in {"message", "reaction"} => EventRule

\* A reaction one second after an awarded message of the same user is awarded
\* although the message cooldown of 20 seconds is running.
C24_Witness ==
    /\ event.kind = "reaction" /\ event.awarded /\ event.cdSec = 10
    /\ lastAward[event.g][event.u].message = event.at - 1000
    /\ settings[event.g].msg_cooldown_sec = 20
    /\ msgCooldown[event.g][event.u] = event.at - 1000
    /\ reactionCooldown[event.g][event.u] = event.at

C26_GetGuildSettings ==
    cfgObs.op = "get" =>
        /\ settings[cfgObs.g] # NoSettingsRow
        /\ cfgObs.ret = settings[cfgObs.g]
        /\ cfgObs.pre = NoSettingsRow => cfgObs.ret = DefaultSettings
        /\ cfgObs.pre # NoSettingsRow => cfgObs.ret = cfgObs.pre

\* A read after an update returns the updated value of msg_xp, not the default.
C26_Witness ==
    /\ cfgObs.op = "get"
    /\ cfgObs.pre # NoSettingsRow
    /\ cfgObs.ret.msg_xp = 7
    /\ cfgObs.ret.msg_cooldown_sec = DefaultSettings.msg_cooldown_sec
    /\ settings[cfgObs.g].msg_xp = 7

\* C27: the decay write for a user is computed from the user's XP as stored
\* at the moment of the write, so that an award applied after the pass took
\* its snapshot is not lost.
C27_DecayKeepsAwards ==
    \A e \in decayLog :
        e.wrote => e.after = Fin(DecayedXp(clampXpTotal(e.stored).i, DecayPct(e.cfg)))

\* The members whose XP an award handler or the decay pass has changed.
XpChanged(g, u) ==
    \/ applied[g][u] > 0
    \/ \E e \in decayLog : e.u = u /\ e.wrote

\* C28: with fixed mappings, no role changes by hand and platform calls that
\* succeed, whenever no handler, voice tick or decay pass is in flight every
\* member whose XP they changed holds each role whose level the stored XP
\* reaches, and has the drop timer set for each role held below its level.
C28_SyncReflectsStoredLevel ==
    (\A tid \in TaskIds : tasks[tid].kind = "idle") =>
        \A g \in Guilds, u \in Users, r \in Roles :
            (XpChanged(g, u) /\ levelRoles[g][r].present) =>
                LET level == levelFromXp(users[g][u].i, settings[g].level_xp_factor)
                    required == levelRoles[g][r].level_required
                IN /\ level >= required => r \in held[g][u]
                   /\ (level < required /\ r \in held[g][u]) => dropState[g][u][r] # 0

\* The level the stored XP of the member gives.
StoredLevel(g, u) ==
    IF users[g][u] = NoRow THEN 0
    ELSE levelFromXp(users[g][u].i, settings[g].level_xp_factor)

\* The member holds the mapped role r below its level, and the drop timer
\* started more than the grace period ago.
Overdue(g, u, r) ==
    /\ levelRoles[g][r].present
    /\ r \in held[g][u]
    /\ StoredLevel(g, u) < levelRoles[g][r].level_required
    /\ dropState[g][u][r] # 0
    /\ now - dropState[g][u][r] > Max(0, levelRoles[g][r].drop_grace_days) * DAY_MS

\* C29: a member who holds a mapped role and has been below its level for
\* more than the grace period loses the role eventually (unless the member
\* reaches the level again), given that platform calls succeed and the daily
\* decay pass keeps running, even without further events of the member.
C29_OverdueRoleRevoked ==
    \A g \in Guilds, u \in {"u1"}, r \in {"r1"} :
        Overdue(g, u, r) ~>
            (r \notin held[g][u] \/ StoredLevel(g, u) >= levelRoles[g][r].level_required)

\* The cooldown test of the handlers on an entry `last` of a cooldown map.
CooldownRunning(last, cdSec) ==
    Max(0, cdSec) > 0 /\ (now - last) < Max(0, cdSec) * 1000

\* C30: sweeping the cooldown maps has no behavioural effect: for every
\* stored cooldown and every sequence of message and reaction events, an
\* event arriving now is refused by the swept map exactly when the map
\* without sweeping, which holds the time of the user's last awarded event
\* of the kind, refuses it.
C30_SweepHasNoEffect ==
    \A g \in Guilds, u \in Users :
        /\ CooldownRunning(msgCooldown[g][u], settings[g].msg_cooldown_sec)
               <=> CooldownRunning(lastAward[g][u].message, settings[g].msg_cooldown_sec)
        /\ CooldownRunning(reactionCooldown[g][u], settings[g].reaction_cooldown_sec)
               <=> CooldownRunning(lastAward[g][u].reaction, settings[g].reaction_cooldown_sec)

\* The sweep has dropped the entry of an awarded message whose cooldown of
\* 20 seconds was over.
C30_Witness ==
    \E g \in Guilds, u \in Users :
        /\ lastAward[g][u].message # 0 /\ msgCooldown[g][u] = 0
        /\ settings[g].msg_cooldown_sec = 20

\* The stored XP of a user as a number (0 without a row).
XpValue(row) == IF row = NoRow THEN 0 ELSE row.i

\* C31: handling a message, reaction or voice event never decreases any
\* user's XP: no step of a handler leaves a user with less XP than before.
C31_HandlersNeverDecrease ==
    [][\A g \in Guilds, u \in Users : XpValue(users'[g][u]) >= XpValue(users[g][u])]_vars

\* A whole sync pass run from machine m without interleaving, every platform
\* call answered with ok: the machine at the end and the requests made.
RECURSIVE RunPass(_, _, _)
RunPass(m, ok, req) ==
    IF m.task.pc \in {"add", "remove"}
    THEN LET t == m.task
             roleId == t.maps[t.i].role_id
             h == PlatformApply(m.held[t.g][t.u], t.pc, roleId, ok)
         IN RunPass(SyncResume([m EXCEPT !.held[t.g][t.u] = h]), ok,
                    req \cup {<<t.pc, roleId>>})
    ELSE [m |-> m, req |-> req]

SyncPass(g, u, lvl, ok) ==
    RunPass(SyncLoop([Machine EXCEPT !.task = SyncTask(g, u, lvl)]), ok, {})

\* C32: in a sync pass, for every mapping with level >= requiredLevel, a
\* grant is requested if and only if the member lacks the role, no revocation
\* is requested, and after the pass belowSince of that (user, role) is null:
\* whatever state the pass starts in and whether the platform calls succeed.
C32_QualifyingMapping ==
    \A g \in Guilds, u \in SyncUsers, lvl \in 0..2, ok \in BOOLEAN :
        LET out == SyncPass(g, u, lvl, ok)
        IN \A r \in Roles :
               (levelRoles[g][r].present /\ lvl >= levelRoles[g][r].level_required)
                   => /\ <<"add", r>> \in out.req <=> r \notin held[g][u]
                      /\ <<"remove", r>> \notin out.req
                      /\ out.m.ds[g][u][r] = 0

\* A pass at level 1 is about to grant r1 to a member who lacks it and has a
\* stale drop timer for it; the member also holds r2 below its level.
C32_Witness ==
    \E g \in Guilds, u \in SyncUsers :
        /\ levelRoles[g]["r1"].present /\ levelRoles[g]["r2"].present
        /\ "r1" \notin held[g][u] /\ dropState[g][u]["r1"] # 0
        /\ "r2" \in held[g][u]
        /\ SyncPass(g, u, 1, TRUE).req = {<<"add", "r1">>}

\* A pass that finds the member below the level of r, holding r without a
\* drop timer, stores the current time and makes no request for r.
TimerStartedByPass ==
    \A g \in Guilds, u \in SyncUsers, lvl \in 0..2, ok \in BOOLEAN :
        \A r \in Roles :
            (/\ levelRoles[g][r].present
             /\ lvl < levelRoles[g][r].level_required
             /\ r \in held[g][u]
             /\ dropState[g][u][r] = 0)
                => LET out == SyncPass(g, u, lvl, ok)
                   IN /\ out.m.ds[g][u][r] = now
                      /\ <<"add", r>> \notin out.req
                      /\ <<"remove", r>> \notin out.req

\* No step replaces a stored belowSince by another time.
TimerNotOverwritten ==
    \A g \in Guilds, u \in Users, r \in Roles :
        dropState[g][u][r] # 0 => dropState'[g][u][r] \in {dropState[g][u][r], 0}

\* C33: a pass that finds the member below requiredLevel, holding the role,
\* with belowSince unset sets belowSince to the current time and requests
\* neither grant nor revocation for that role; later passes never overwrite
\* an already-set belowSince with a later time.
C33_TimerStartsOnce ==
    []TimerStartedByPass /\ [][TimerNotOverwritten]_vars

\* A pass has just ended for a member who holds r1 below its level with a
\* timer that an earlier pass started: the timer still shows the earlier time.
C33_Witness ==
    \E g \in Guilds, u \in SyncUsers :
        /\ <<g, u>> \in passDone
        /\ "r1" \in held[g][u]
        /\ dropState[g][u]["r1"] # 0
        /\ dropState[g][u]["r1"] < now
        /\ timerAt[g][u]["r1"] = dropState[g][u]["r1"]

\* Mapping j of the pass of task t still needs a grant after the step.
NeedsGrant(t, j) ==
    /\ t.level >= t.maps[j].level_required
    /\ t.maps[j].role_id \notin held'[t.g][t.u]

\* After the step the pass of task tid has gone on past mapping t.i: it is
\* suspended on the first later mapping that needs a grant, or it is over
\* and no later mapping needs one.
PassWentOn(tid) ==
    LET t == tasks[tid]
        t2 == tasks'[tid]
        stop == IF t2.pc \in {"add", "remove"} THEN t2.i ELSE Len(t.maps) + 1
    IN /\ stop > t.i
       /\ t2.pc \in {"add", "remove"} => (t2.g = t.g /\ t2.u = t.u /\ t2.level = t.level)
       /\ t2.pc = "add" => NeedsGrant(t, stop)
       /\ t2.pc \notin {"add", "remove"} => (t2 = Idle /\ <<t.g, t.u>> \in passDone')
       /\ \A j \in (t.i + 1)..(stop - 1) : ~NeedsGrant(t, j)

\* C34: a failed grant or revoke request never aborts the calling event: the
\* role sync of a message or reaction handler goes on with the remaining
\* mappings of the guild, and the XP and the activity record of the event
\* stay applied.
C34_RoleFailureNotFatal ==
    [][\A tid \in TaskIds :
          (FailedReplyTo(tid) /\ tasks[tid].kind \in {"message", "reaction"}) =>
              /\ PassWentOn(tid)
              /\ users' = users
              /\ activity' = activity]_vars

\* The grant of r1 failed, the handler is waiting for the grant of r2 and the
\* 500 XP of the message are stored.
C34_Witness ==
    \E tid \in TaskIds :
        LET t == tasks[tid]
        IN /\ t.kind = "message" /\ t.pc = "add" /\ t.i = 2
           /\ t.maps[2].role_id = "r2"
           /\ "r1" \notin held[t.g][t.u]
           /\ users[t.g][t.u] = Fin(500)
           /\ \A s \in TaskIds \ {tid} : tasks[s].kind = "idle"

\* The members a voice tick over guild g awards.
VoiceQueue(g) ==
    LET members == EligibleVoiceStates(voice[g])
        queue == AwardQueue(voice[g], members, ChannelKeys(voice[g], members, {}))
    IN {queue[k] : k \in 1..Len(queue)}

\* C35: in a voice tick a failure while awarding or syncing one member, or
\* while reading one guild's settings, does not keep the remaining eligible
\* members from their award: once the ticks that ran are over, every
\* eligible member whose own award did not fail has the award of every tick.
C35_VoiceTickGoesOn ==
    \A g \in Guilds :
        (ticksRun > 0 /\ \A tid \in TaskIds : tasks[tid].kind # "voice")
            => \A u \in VoiceQueue(g) \ faults :
                   applied[g][u] = ticksRun * Max(0, settings[g].voice_xp_per_min)

\* A tick is over in which the award of u1 failed and u2 and u3 received
\* theirs.
C35_Witness ==
    \E g \in Guilds :
        /\ faults = {"u1"} /\ ticksRun = 1
        /\ \A tid \in TaskIds : tasks[tid].kind # "voice"
        /\ users[g]["u1"] = NoRow
        /\ users[g]["u2"] = Fin(450) /\ users[g]["u3"] = Fin(450)

\* C36: a role-sync pass never requests the revocation of a role and never
\* starts a drop timer for a mapping that deleteLevelRole has removed, even
\* when the deletion happens while the pass is suspended on a platform call
\* for an earlier mapping.
C36_DeletedMappingUntouched ==
    [][\A g \in Guilds, r \in Roles :
          ~levelRoles[g][r].present =>
              /\ \A u \in Users : dropState[g][u][r] = 0 => dropState'[g][u][r] = 0
              /\ \A tid \in TaskIds :
                     ~(/\ RevokeRequestedBy(tid)
                       /\ tasks'[tid].g = g
                       /\ tasks'[tid].maps[tasks'[tid].i].role_id = r)]_vars

\* The records of one kind in a user's activity log.
RecordsOfKind(log, kind) ==
    LET IsKind(e) == e.kind = kind
    IN SelectSeq(log, IsKind)

\* The step handles a message of u in g that is awarded.
AwardedMessageStep(g, u) ==
    /\ event'.kind = "message" /\ event'.awarded
    /\ event'.g = g /\ event'.u = u /\ event'.at = now
    /\ applied'[g][u] = applied[g][u] + event'.gain
    /\ msgCooldown'[g][u] = now

\* The step appends a record of kind message to the log of u in g.
MessageRecordAppended(g, u) ==
    /\ Len(activity'[g][u]) = Len(activity[g][u]) + 1
    /\ activity'[g][u][Len(activity'[g][u])].kind = "message"

\* The XP awarded to each user is the XP of the awarded events on record.
RecordsMatchAwards ==
    \A g \in Guilds, u \in Users :
        applied[g][u] =
            Len(RecordsOfKind(activity[g][u], "message")) * settings[g].msg_xp
            + Len(RecordsOfKind(activity[g][u], "reaction")) * settings[g].reaction_xp

\* C37: an activity record of kind message is appended exactly when a
\* message event is awarded; messages suppressed by the cooldown, sent by
\* bots or sent while msgXp = 0 append nothing, and reactions append no
\* message record, so that countMessagesInWindow counts awarded messages only.
C37_MessageRecordIffAwarded ==
    /\ []RecordsMatchAwards
    /\ [][\A g \in Guilds, u \in Users :
             /\ MessageRecordAppended(g, u) <=> AwardedMessageStep(g, u)
             /\ MessageRecordAppended(g, u) =>
                    /\ activity'[g][u] = Append(activity[g][u],
                           [kind |-> "message", amount |-> 1, created_at |-> now])
                    /\ countMessagesInWindow(activity'[g][u], 1)
                           = countMessagesInWindow(activity[g][u], 1) + 1
             /\ ~MessageRecordAppended(g, u) =>
                    countMessagesInWindow(activity'[g][u], 1)
                        <= countMessagesInWindow(activity[g][u], 1)]_vars

\* A message inside the cooldown of 20 seconds has been refused: the log
\* holds the record of the awarded message only.
C37_Witness ==
    /\ event.kind = "message" /\ ~event.awarded /\ event.cdSec = 20 /\ event.gain > 0
    /\ event.prev # 0 /\ event.at - event.prev < 20000
    /\ RecordsOfKind(activity[event.g][event.u], "message")
           = <<[kind |-> "message", amount |-> 1, created_at |-> event.prev]>>

\* The step is a call of addXp, setXp or getXp.
LedgerCallStep ==
    /\ obs'.op \in {"addXp", "setXp", "getXp"}
    /\ obs' # obs \/ steps' # steps

\* The step is a message handler that ended in its catch: the cooldown is
\* stamped and no function is left in flight for the event.
FailedAwardStep ==
    /\ faults # {}
    /\ event'.kind = "message" /\ event'.awarded /\ event'.at = now
    /\ msgCooldown'[event'.g][event'.u] = now
    /\ tasks' = tasks /\ obs' = obs /\ steps' = steps

\* C38: addXp, setXp and getXp on key (guild, user) leave the XP of every
\* other key unchanged, and a storage failure while processing one user's
\* award leaves the XP, the activity records and the drop state of all
\* other users and guilds unchanged.
C38_OtherKeysUntouched ==
    [][/\ LedgerCallStep =>
              \A g \in LedgerGuilds, u \in Users :
                  <<g, u>> # <<obs'.g, obs'.u>> => users'[g][u] = users[g][u]
       /\ FailedAwardStep =>
              /\ \A g \in LedgerGuilds, u \in Users :
                     <<g, u>> # <<event'.g, event'.u>> =>
                         /\ users'[g][u] = users[g][u]
                         /\ activity'[g][u] = activity[g][u]
              /\ \A g \in Guilds, u \in Users \ {event'.u} :
                     dropState'[g][u] = dropState[g][u]
              /\ event'.u \in faults =>
                     users'[event'.g][event'.u] = users[event'.g][event'.u]]_vars

\* The award of u1's message has failed in addXp after setXp had written the
\* row of u2 in the other guild: nothing is awarded and every row is as
\* before.
C38_Witness ==
    /\ faults = {"u1"}
    /\ event.kind = "message" /\ event.awarded /\ event.u = "u1"
    /\ msgCooldown["g1"]["u1"] = event.at
    /\ applied["g1"]["u1"] = 0 /\ users["g1"]["u1"] = Fin(500)
    /\ obs.op = "setXp" /\ obs.g = "g2" /\ obs.u = "u2"
    /\ users["g2"]["u2"] = Fin(0) /\ users["g2"]["u1"] = Fin(500)
    /\ users["g1"]["u2"] = Frac(500)

\* C39: after any sequence of updateGuildSettings calls and /setxp and
\* /setdecay commands the stored settings of every guild are in range: the
\* award amounts and the cooldowns are non-negative, decayWindowDays >= 1,
\* decayMinMessages >= 0, decayPercent is in [0, 0.95] (stored in
\* hundredths) and levelCurveFactor >= 1.
C39_SettingsInRange ==
    \A g \in Guilds :
        LET s == settings[g]
        IN /\ s.msg_xp >= 0 /\ s.reaction_xp >= 0 /\ s.voice_xp_per_min >= 0
           /\ s.msg_cooldown_sec >= 0 /\ s.reaction_cooldown_sec >= 0
           /\ s.decay_window_days >= 1
           /\ s.decay_min_messages >= 0
           /\ s.decay_percent >= 0 /\ s.decay_percent <= 95
           /\ s.level_xp_factor >= 1

====
